---------------------------- MODULE Spec2Model ----------------------------
(***************************************************************************)
(* A model of STORM (listerreg/storm): the Retrievable record base, the    *)
(* DbValue value container and the DbService mapper of src/src/dal.cpp and *)
(* src/include/dal.h, run against the record classes of                    *)
(* src/examples/main.cpp.                                                  *)
(*                                                                         *)
(* The relational store (SQLite) is an external collaborator.  It is       *)
(* modelled by the Sql* operators from the calls the code makes and from   *)
(* the table definitions DbService::RecreateTable writes.  A table is a    *)
(* sequence of rows in rowid order; `store` is what a fresh connection     *)
(* reads, i.e. the committed content.                                      *)
(*                                                                         *)
(* Every DbService operation is one action.  The action records the call   *)
(* in `op`, the record(s) handed in as `arg`, the same record(s) as the    *)
(* call left them as `ent`, how the call ended as `outcome`, the rows      *)
(* returned as `result`, the store the call started from as `pre`, and     *)
(* the store calls it made, in order, as `log`.                            *)
(*                                                                         *)
(* The Float and Timestamp columns of the example classes (Host.price,     *)
(* Service.start_date) are left out of the schemas.                        *)
(*                                                                         *)
(* The registry of a record object (Retrievable::PrototypesAccessor) and   *)
(* the calls on it are modelled on the objects in `objs`; the DbService    *)
(* operations work on records whose registry is built.                     *)
(***************************************************************************)
EXTENDS Integers, Sequences, FiniteSets, TLC

VARIABLES
    store,          \* committed content: table name -> sequence of rows
    present,        \* the tables that exist in the store
    conns,          \* connections left open by earlier calls
    sqlInsertCache, \* DbService::sqlInsertCache: table name -> text
    sqlSelectCache, \* DbService::sqlSelectCache
    sqlUpdateCache, \* DbService::sqlUpdateCache
    op,             \* the last operation called
    arg,            \* its record argument(s) as handed in
    ent,            \* the same record(s) after the call
    outcome,        \* "ok", "error" (exception raised) or "abort"
    result,         \* the records a retrieval returned
    pre,            \* `store` when the call started
    log,            \* the store calls of the last operation, in order
    objs,           \* the record objects of the caller: object name -> object
    before          \* `objs` when the call started

vars == <<store, present, conns, sqlInsertCache, sqlSelectCache,
          sqlUpdateCache, op, arg, ent, outcome, result, pre, log,
          objs, before>>

---------------------------------------------------------------------------
(* Bounds of the model.                                                    *)

\* Keys the store may hold are 1..MaxKey; a record's key field is 0..MaxKey.
MaxKey == 2

\* Longest list handed to a batch operation.
MaxBatch == 2

\* Most connections the model lets earlier calls leave open.
MaxLeaked == 1

\* Length of the lists of the specification of batch order.
OrderLen == 3

\* Longest text handed to SetStrValue.
MaxText == 3

\* Most runs of Initialize() the model follows on one object.
MaxInits == 2
MaxAllocs == 3

---------------------------------------------------------------------------
(* Small helpers.                                                          *)

RECURSIVE Pow2(_)
Pow2(n) == IF n = 0 THEN 1 ELSE 2 * Pow2(n - 1)

Range(s) == {s[i] : i \in DOMAIN s}

\* Sequences over S of length 1..n.
SeqsUpTo(S, n) == UNION {[1..k -> S] : k \in 1..n}

---------------------------------------------------------------------------
(* The record classes of the example program.                              *)

Tables == {"Hosts", "Services"}

\* A column description as Retrievable::SavePrototype pushes it:
\* {name, type, size, foreignKey}.  size is sizeof of the field's type for
\* integers, sizeof(char) for a char* field and 0 for a std::string field.
HostSchema ==
    << [name |-> "host_id",    type |-> "DB_INTEGER", size |-> 8, foreignKey |-> ""],
       [name |-> "host_name",  type |-> "DB_TEXT",    size |-> 0, foreignKey |-> ""],
       [name |-> "address_ip", type |-> "DB_TEXT",    size |-> 1, foreignKey |-> ""],
       [name |-> "asset",      type |-> "DB_INTEGER", size |-> 4, foreignKey |-> ""] >>

ServiceSchema ==
    << [name |-> "service_id", type |-> "DB_INTEGER", size |-> 4, foreignKey |-> ""],
       [name |-> "host_id",    type |-> "DB_INTEGER", size |-> 8, foreignKey |-> "Hosts"],
       [name |-> "name",       type |-> "DB_TEXT",    size |-> 0, foreignKey |-> ""],
       [name |-> "port",       type |-> "DB_INTEGER", size |-> 4, foreignKey |-> ""] >>

\* Retrievable::GetSchema of an instance whose tableName is t.
GetSchema(t) == IF t = "Hosts" THEN HostSchema ELSE ServiceSchema

ColNames(t) == {GetSchema(t)[i].name : i \in DOMAIN GetSchema(t)}

KeyName(t) == GetSchema(t)[1].name

\* A char* field: a null pointer, or a pointer at a nul-terminated text.
NullPtr == [null |-> TRUE, s |-> ""]
CStr(s) == [null |-> FALSE, s |-> s]

\* A record instance: its table name and its fields.  An integer field holds
\* the bytes of the field read as an unsigned little-endian number.
HostRecord(id, nm, ip, asset) ==
    [tableName |-> "Hosts",
     f |-> [host_id |-> id, host_name |-> nm, address_ip |-> ip, asset |-> asset]]

ServiceRecord(id, host, nm, port) ==
    [tableName |-> "Services",
     f |-> [service_id |-> id, host_id |-> host, name |-> nm, port |-> port]]

\* A default-constructed instance (the member initialisers of the classes).
NewEntity(t) ==
    IF t = "Hosts" THEN HostRecord(0, "", NullPtr, 0)
    ELSE ServiceRecord(0, 0, "", 0)

\* A default-constructed instance with its key field set.
Fresh(t, k) == [NewEntity(t) EXCEPT !.f[KeyName(t)] = k]

\* The records the operations are called with.
HostRecords ==
    {HostRecord(k, "srv", ip, 42) : k \in 0..MaxKey, ip \in {NullPtr, CStr("ip")}}

ServiceRecords ==
    {ServiceRecord(k, h, "web", 80) : k \in 0..MaxKey, h \in 1..MaxKey}

FreshRecords == {Fresh(t, k) : t \in Tables, k \in 0..MaxKey}

Records == HostRecords \cup ServiceRecords


---------------------------------------------------------------------------
(* DbValue: the encoded snapshot of one field.                             *)

\* A field of `size` bytes whose bytes this model can write down in full.
\* (Wider fields hold values below 2^30 here, whose top bit is clear.)
Narrow(size) == 8 * size <= 30

\* The first 8 bytes of value_arr read as int64_t after the default branch of
\* the constructor: value_arr is filled with 0xFF when the top bit of the
\* field's last byte is set, then the field's `size` bytes are copied in.
EncodeInteger(bits, size) ==
    IF Narrow(size) /\ bits >= Pow2(8 * size - 1)
    THEN bits - Pow2(8 * size)
    ELSE bits

\* The text the DB_TEXT branch leaves behind `value`: the pointee of a char*
\* field, nothing (value_arr stays zeroed) when that pointer is null, or the
\* c_str() of a std::string field.
EncodeText(field, size) ==
    IF size > 0
    THEN (IF field.null THEN "" ELSE field.s)
    ELSE field

\* DbValue::DbValue(const dbValuePrototype&).  i is the int64_t behind
\* `value`, s the nul-terminated text behind it.
DbValue(col, field) ==
    [name |-> col.name, type |-> col.type, size |-> col.size,
     i |-> IF col.type = "DB_INTEGER" THEN EncodeInteger(field, col.size) ELSE 0,
     s |-> IF col.type = "DB_TEXT" THEN EncodeText(field, col.size) ELSE ""]

\* Retrievable::GetValues: one DbValue per registered field, in
\* registration order.
GetValues(e) ==
    [k \in DOMAIN GetSchema(e.tableName) |->
        DbValue(GetSchema(e.tableName)[k], e.f[GetSchema(e.tableName)[k].name])]

\* What memcpy(field, value, size) leaves in an integer field when value
\* points at the int64_t x: the low `size` bytes of x.
DecodeInteger(x, size) ==
    IF Narrow(size) THEN x % Pow2(8 * size) ELSE x

\* Retrievable::SetValue(name, value): value points at an int64_t (i) for an
\* integer field and at a const char* (s) for a text field.
SetValue(e, name, i, s) ==
    LET col == CHOOSE c \in Range(GetSchema(e.tableName)) : c.name = name
    IN  IF col.type = "DB_TEXT"
        THEN IF col.size > 0
             THEN [e EXCEPT !.f[name] = CStr(s)]
             ELSE [e EXCEPT !.f[name] = s]
        ELSE [e EXCEPT !.f[name] = DecodeInteger(i, col.size)]

---------------------------------------------------------------------------
(* The store.                                                              *)

\* One column of one row.  An integer column uses i, a text column s.
IntCell(n) == [i |-> n, s |-> ""]
TextCell(t) == [i |-> 0, s |-> t]

\* What sqlite3_bind_int64 / sqlite3_bind_text hand to the store for a value.
CellOf(v) == IF v.type = "DB_INTEGER" THEN IntCell(v.i) ELSE TextCell(v.s)

\* RecreateTable declares the zeroth column "integer PRIMARY KEY NOT NULL"
\* when it is an integer that is no foreign key: it is then the rowid, and
\* the store assigns it when it is inserted as NULL.
KeyIsRowid(t) ==
    GetSchema(t)[1].type = "DB_INTEGER" /\ GetSchema(t)[1].foreignKey = ""

MaxRowid(rows) ==
    IF rows = <<>> THEN 0
    ELSE CHOOSE m \in {rows[k].rowid : k \in DOMAIN rows} :
            \A k \in DOMAIN rows : rows[k].rowid <= m

\* rows with row put at its place in rowid order.
PutRow(rows, row) ==
    SelectSeq(rows, LAMBDA r : r.rowid < row.rowid) \o <<row>> \o
    SelectSeq(rows, LAMBDA r : r.rowid > row.rowid)

\* Every "REFERENCES <table>" column of a row of t names a row of the parent.
FkSatisfied(db, t, cells) ==
    \A k \in DOMAIN GetSchema(t) :
        LET col == GetSchema(t)[k]
        IN  col.foreignKey # "" =>
                \E j \in DOMAIN db[col.foreignKey] :
                    db[col.foreignKey][j].c[KeyName(col.foreignKey)] = cells[col.name]

\* No row of a table that references t holds the key `cell`.
NotReferenced(db, t, cell) ==
    \A u \in Tables : \A k \in DOMAIN GetSchema(u) :
        GetSchema(u)[k].foreignKey = t =>
            \A j \in DOMAIN db[u] : db[u][j].c[GetSchema(u)[k].name] # cell

\* sqlite3_step of "INSERT INTO t ( all columns ) VALUES ( :all columns )"
\* with the parameters in DOMAIN binds bound and the others NULL.
SqlInsert(db, t, binds, fkOn) ==
    LET key    == KeyName(t)
        rows   == db[t]
        auto   == key \notin DOMAIN binds
        keyc   == IF auto THEN IntCell(MaxRowid(rows) + 1) ELSE CellOf(binds[key])
        cells  == [n \in ColNames(t) |-> IF n = key THEN keyc ELSE CellOf(binds[n])]
        row    == [rowid |-> IF KeyIsRowid(t) THEN keyc.i ELSE MaxRowid(rows) + 1,
                   c |-> cells]
        fail   == [rc |-> "SQLITE_CONSTRAINT", db |-> db, rowid |-> 0]
    IN  IF auto /\ ~KeyIsRowid(t) THEN fail                       \* NOT NULL
        ELSE IF \E k \in DOMAIN rows : rows[k].c[key] = keyc THEN fail   \* unique
        ELSE IF fkOn /\ ~FkSatisfied(db, t, cells) THEN fail
        ELSE [rc |-> "SQLITE_DONE",
              db |-> [db EXCEPT ![t] = PutRow(rows, row)],
              rowid |-> row.rowid]

\* The columns the UPDATE text sets: all but the zeroth.
UpdateSetCols(t) == SubSeq(GetSchema(t), 2, Len(GetSchema(t)))

\* Mutant of UpdateWhereCol: the WHERE clause tests the first column set.
UpdateWhereFirstSet(t) == GetSchema(t)[2].name

\* The column the WHERE clause of the UPDATE text tests.
UpdateWhereCol(t) == GetSchema(t)[1].name

\* The column the WHERE clause of the DELETE text tests.
DeleteWhereCol(t) == GetSchema(t)[1].name

\* sqlite3_step of "UPDATE t SET <set columns> WHERE <where> = :<where>".
SqlUpdate(db, t, binds, fkOn) ==
    LET key   == UpdateWhereCol(t)
        sets  == {UpdateSetCols(t)[k].name : k \in DOMAIN UpdateSetCols(t)}
        hit(r) == r.c[key] = CellOf(binds[key])
        new(r) == [r EXCEPT !.c = [n \in ColNames(t) |->
                                    IF n \in sets THEN CellOf(binds[n]) ELSE r.c[n]]]
        rows  == [k \in DOMAIN db[t] |-> IF hit(db[t][k]) THEN new(db[t][k]) ELSE db[t][k]]
    IN  IF fkOn /\ \E k \in DOMAIN rows : hit(db[t][k]) /\ ~FkSatisfied(db, t, rows[k].c)
        THEN [rc |-> "SQLITE_CONSTRAINT", db |-> db]
        ELSE [rc |-> "SQLITE_DONE", db |-> [db EXCEPT ![t] = rows]]

\* Mutant of SqlDelete: a DELETE that fails on a constraint has removed its
\* rows all the same.
SqlDeletePartial(db, t, binds, fkOn) ==
    [rc |-> IF fkOn /\ \E k \in DOMAIN db[t] :
                    /\ db[t][k].c[DeleteWhereCol(t)] = CellOf(binds[DeleteWhereCol(t)])
                    /\ ~NotReferenced(db, t, db[t][k].c[KeyName(t)])
            THEN "SQLITE_CONSTRAINT" ELSE "SQLITE_DONE",
     db |-> [db EXCEPT ![t] = SelectSeq(db[t], LAMBDA r :
                    r.c[DeleteWhereCol(t)] # CellOf(binds[DeleteWhereCol(t)]))]]

\* sqlite3_step of "DELETE FROM t WHERE <where> = :<where>".
SqlDelete(db, t, binds, fkOn) ==
    LET key   == DeleteWhereCol(t)
        hit(r) == r.c[key] = CellOf(binds[key])
    IN  IF fkOn /\ \E k \in DOMAIN db[t] :
                     hit(db[t][k]) /\ ~NotReferenced(db, t, db[t][k].c[KeyName(t)])
        THEN [rc |-> "SQLITE_CONSTRAINT", db |-> db]
        ELSE [rc |-> "SQLITE_DONE",
              db |-> [db EXCEPT ![t] = SelectSeq(db[t], LAMBDA r : ~hit(r))]]

\* The rows "SELECT <all columns> FROM t WHERE col = val" steps through.
SqlSelect(db, t, col, val) ==
    SelectSeq(db[t], LAMBDA r : r.c[col] = val)

---------------------------------------------------------------------------
(* SQL text.                                                               *)

RECURSIVE JoinFrom(_, _, _)
\* The names of the columns k.. of schema cols, each after `mark`,
\* separated by ", " (the "if (itr != end-1)" of the synthesis loops).
JoinFrom(cols, k, mark) ==
    IF k > Len(cols) THEN ""
    ELSE mark \o cols[k].name \o
         (IF k < Len(cols) THEN ", " ELSE "") \o JoinFrom(cols, k + 1, mark)

RECURSIVE JoinSetFrom(_, _)
JoinSetFrom(cols, k) ==
    IF k > Len(cols) THEN ""
    ELSE cols[k].name \o " = :" \o cols[k].name \o
         (IF k < Len(cols) THEN ", " ELSE "") \o JoinSetFrom(cols, k + 1)

InsertSql(t) ==
    "INSERT INTO " \o t \o " ( " \o JoinFrom(GetSchema(t), 1, "") \o
    " ) VALUES ( " \o JoinFrom(GetSchema(t), 1, ":") \o " )"

SelectSql(t) ==
    "SELECT " \o JoinFrom(GetSchema(t), 1, "") \o " FROM " \o t

UpdateSql(t) ==
    "UPDATE " \o t \o " SET " \o JoinSetFrom(UpdateSetCols(t), 1) \o
    " WHERE " \o UpdateWhereCol(t) \o " = :" \o UpdateWhereCol(t)

DeleteSql(t) ==
    "DELETE FROM " \o t \o " WHERE " \o DeleteWhereCol(t) \o " = :" \o DeleteWhereCol(t)

\* Mutant of CachePut: a miss empties the cache before the entry is put.
CachePutAlone(cache, t, text) ==
    IF t \in DOMAIN cache THEN cache
    ELSE [x \in {t} |-> text]

\* DbService::SearchSqlCache followed by the insert of a missing entry: the
\* cache after Prepare*Sql(entity) ran.
CachePut(cache, t, text) ==
    IF t \in DOMAIN cache THEN cache
    ELSE [x \in DOMAIN cache \cup {t} |-> IF x = t THEN text ELSE cache[x]]

PrepareInsertSql(cache, t) == CachePut(cache, t, InsertSql(t))
PrepareSelectSql(cache, t) == CachePut(cache, t, SelectSql(t))
PrepareUpdateSql(cache, t) == CachePut(cache, t, UpdateSql(t))

\* The predicate RetrieveChildEntities builds: column.name + " = " +
\* std::to_string(key).
PredText(col, n) == col \o " = " \o ToString(n)

\* The integer columns of t a predicate of the model may name.
IntCols(t) == {c.name : c \in {d \in Range(GetSchema(t)) : d.type = "DB_INTEGER"}}

\* The integer literals a predicate of the model may hold.
PredInts == (0 - 1) .. (MaxKey + 1)

\* A predicate the store can parse against table t.
WellFormed(t, pred) ==
    \E col \in IntCols(t), n \in PredInts : pred = PredText(col, n)

\* The rows "SELECT ... FROM t WHERE <pred>" steps through, in rowid order.
SqlSelectWhere(db, t, pred) ==
    SelectSeq(db[t], LAMBDA r :
        \E col \in IntCols(t), n \in PredInts :
            pred = PredText(col, n) /\ r.c[col].i = n)

---------------------------------------------------------------------------
(* Connections and statements.                                             *)

\* One entry of `log`: a call of the store's interface, its argument and
\* its return code.
Call(c, a, rc) == [call |-> c, arg |-> a, rc |-> rc]

\* A connection just opened: foreign keys are not enforced, no transaction
\* is open, it holds no write lock and has no statement prepared.
NewConn == [fk |-> FALSE, txn |-> FALSE, locked |-> FALSE, stmts |-> 0]

\* Mutant of ForeignKeysOn: the pragma is never issued.
ForeignKeysLeftOff(c) == c

\* sqlite3_exec(db, "PRAGMA foreign_keys = ON"): the connection enforces
\* foreign keys from here on.
ForeignKeysOn(c) == [c EXCEPT !.fk = TRUE]

\* Mutant of BeginTransaction: the BEGIN TRANSACTION is never issued.
BeginTransactionMissing(c) == c

\* sqlite3_exec(db, "BEGIN TRANSACTION"): what is stepped on the connection
\* from here on is committed by END TRANSACTION only.
BeginTransaction(c) == [c EXCEPT !.txn = TRUE]

\* sqlite3_prepare_v2 succeeded: one more statement is to be finalized.
WithStatement(c) == [c EXCEPT !.stmts = @ + 1]

\* sqlite3_close(db): refused (SQLITE_BUSY, the connection stays open) while
\* a statement prepared on it is not finalized; otherwise the connection is
\* closed and an open transaction is rolled back.
CloseRc(c) == IF c.stmts > 0 THEN "SQLITE_BUSY" ELSE "SQLITE_OK"
LeftOpen(c) == IF c.stmts > 0 THEN <<c>> ELSE <<>>

\* Another connection holds the write lock: a writing step on this one
\* returns SQLITE_BUSY.
WriteLocked(cs) == \E k \in DOMAIN cs : cs[k].locked

\* Mutant of BindStmtParameters: the zeroth value is bound whatever it holds.
BindAllParameters(values, withPK) == values

\* The values DbService::BindStmtParameters hands to BindStmtParameter, in
\* order: all of them, or all but the zeroth when withPK ends up false.
BindStmtParameters(values, withPK) ==
    LET pk == withPK \/ ~(values[1].type = "DB_INTEGER" /\ values[1].i = 0)
    IN  SubSeq(values, IF pk THEN 1 ELSE 2, Len(values))

\* The parameters of a statement after the values vs were bound on top of
\* the bindings b: parameter name -> DbValue.
Bind(b, vs) ==
    [n \in DOMAIN b \cup {vs[k].name : k \in DOMAIN vs} |->
        IF \E k \in DOMAIN vs : vs[k].name = n
        THEN (CHOOSE v \in Range(vs) : v.name = n)
        ELSE b[n]]

NoBinds == [n \in {} |-> 0]

BindLog(vs) == [k \in DOMAIN vs |-> Call("bind", ":" \o vs[k].name, "SQLITE_OK")]

PragmaFk == Call("exec", "PRAGMA foreign_keys = ON", "SQLITE_OK")

\* DbService::FillEntity: every column of the current row is decoded into
\* the record through SetValue.
RECURSIVE FillFrom(_, _, _)
FillFrom(e, row, k) ==
    LET cols == GetSchema(e.tableName)
    IN  IF k > Len(cols) THEN e
        ELSE FillFrom(SetValue(e, cols[k].name,
                               row.c[cols[k].name].i, row.c[cols[k].name].s),
                      row, k + 1)

FillEntity(e, row) == FillFrom(e, row, 1)

RECURSIVE FillNoRowFrom(_, _)
\* FillEntity on a statement that has no current row: sqlite3_column_int64
\* gives 0 and sqlite3_column_text a null pointer, on which SetValue's
\* strlen faults.  done tells whether the loop got through.
FillNoRowFrom(e, k) ==
    LET cols == GetSchema(e.tableName)
    IN  IF k > Len(cols) THEN [ent |-> e, done |-> TRUE]
        ELSE IF cols[k].type = "DB_TEXT" THEN [ent |-> e, done |-> FALSE]
        ELSE FillNoRowFrom(SetValue(e, cols[k].name, 0, ""), k + 1)

---------------------------------------------------------------------------
(* The single-entity operations of DbService.  Each Do* operator runs the  *)
(* whole call on the store db (tables tabs, other open connections cs) and *)
(* gives the committed store, the record, the outcome, the rows returned,  *)
(* the connections the call leaves open and the log of its store calls.    *)
(* The library is built without DB_INIT.                                   *)

Ended(db, e, how, rows, left, lg) ==
    [db |-> db, ent |-> e, outcome |-> how, result |-> rows, left |-> left, log |-> lg]

\* sqlite3_open_v2 failed: the handle is closed and the call throws.
OpenFailed == <<Call("open", "", "SQLITE_CANTOPEN"), Call("close", "", "SQLITE_OK")>>

Opened == <<Call("open", "", "SQLITE_OK")>>

\* Mutant of PrepareFailed: the close is not preceded by a finalize.
PrepareFailedUnfinalized(sql, c) ==
    <<Call("prepare", sql, "SQLITE_ERROR"), Call("close", "", CloseRc(c))>>

\* sqlite3_prepare_v2 failed: finalize (of no statement), close, throw.
PrepareFailed(sql, c) ==
    <<Call("prepare", sql, "SQLITE_ERROR"), Call("finalize", "", "SQLITE_OK"),
      Call("close", "", CloseRc(c))>>

Prepared(sql) == <<Call("prepare", sql, "SQLITE_OK")>>

\* Mutant of FinalizeClose: the statement is not finalized before the close.
CloseUnfinalized(c) == <<Call("close", "", CloseRc(c))>>

\* sqlite3_finalize of the current statement, then sqlite3_close.
FinalizeClose(c) ==
    <<Call("finalize", "", "SQLITE_OK"),
      Call("close", "", CloseRc([c EXCEPT !.stmts = c.stmts - 1]))>>

AfterFinalize(c) == LeftOpen([c EXCEPT !.stmts = c.stmts - 1])

\* Mutant of KeyWriteBack: the assigned key is not written back.
KeyWriteBackSkipped(e, values, rowid) == e

\* The write-back at the end of a save: when the zeroth value is an integer
\* 0, sqlite3_last_insert_rowid is stored into the record's zeroth field.
KeyWriteBack(e, values, rowid) ==
    IF values[1].type = "DB_INTEGER" /\ values[1].i = 0
    THEN SetValue(e, values[1].name, rowid, "")
    ELSE e

\* DbService::SaveEntity.
DoSaveEntity(db, tabs, cs, e, canOpen) ==
    LET t      == e.tableName
        values == GetValues(e)
        sql    == InsertSql(t)
        bound  == BindStmtParameters(values, FALSE)
        c      == ForeignKeysOn(WithStatement(NewConn))
        st     == IF WriteLocked(cs) THEN [rc |-> "SQLITE_BUSY", db |-> db, rowid |-> 0]
                  ELSE SqlInsert(db, t, Bind(NoBinds, bound), c.fk)
        run    == Opened \o Prepared(sql) \o BindLog(bound) \o <<PragmaFk>> \o
                  <<Call("step", "", st.rc)>> \o FinalizeClose(c)
    IN  IF ~canOpen THEN Ended(db, e, "error", <<>>, <<>>, OpenFailed)
        ELSE IF t \notin tabs
        THEN Ended(db, e, "error", <<>>, <<>>, Opened \o PrepareFailed(sql, NewConn))
        ELSE IF st.rc \notin {"SQLITE_DONE", "SQLITE_ROW"}
        THEN Ended(st.db, e, "error", <<>>, AfterFinalize(c), run)
        ELSE Ended(st.db, KeyWriteBack(e, values, st.rowid), "ok", <<>>,
                   AfterFinalize(c), run)

\* Mutant of DoUpdateEntity: an UPDATE that changed nothing raises.
DoUpdateEntityMustHit(db, tabs, cs, e, canOpen) ==
    LET t      == e.tableName
        values == GetValues(e)
        sql    == UpdateSql(t)
        bound  == BindStmtParameters(values, TRUE)
        c      == ForeignKeysOn(WithStatement(NewConn))
        st     == IF WriteLocked(cs) THEN [rc |-> "SQLITE_BUSY", db |-> db]
                  ELSE SqlUpdate(db, t, Bind(NoBinds, bound), c.fk)
        run    == Opened \o Prepared(sql) \o BindLog(bound) \o <<PragmaFk>> \o
                  <<Call("step", "", st.rc)>> \o FinalizeClose(c)
    IN  IF ~canOpen THEN Ended(db, e, "error", <<>>, <<>>, OpenFailed)
        ELSE IF t \notin tabs
        THEN Ended(db, e, "error", <<>>, <<>>, Opened \o PrepareFailed(sql, NewConn))
        ELSE IF st.rc # "SQLITE_DONE" \/ st.db = db
        THEN Ended(st.db, e, "error", <<>>, AfterFinalize(c), run)
        ELSE Ended(st.db, e, "ok", <<>>, AfterFinalize(c), run)

\* DbService::UpdateEntity.
DoUpdateEntity(db, tabs, cs, e, canOpen) ==
    LET t      == e.tableName
        values == GetValues(e)
        sql    == UpdateSql(t)
        bound  == BindStmtParameters(values, TRUE)
        c      == ForeignKeysOn(WithStatement(NewConn))
        st     == IF WriteLocked(cs) THEN [rc |-> "SQLITE_BUSY", db |-> db]
                  ELSE SqlUpdate(db, t, Bind(NoBinds, bound), c.fk)
        run    == Opened \o Prepared(sql) \o BindLog(bound) \o <<PragmaFk>> \o
                  <<Call("step", "", st.rc)>> \o FinalizeClose(c)
    IN  IF ~canOpen THEN Ended(db, e, "error", <<>>, <<>>, OpenFailed)
        ELSE IF t \notin tabs
        THEN Ended(db, e, "error", <<>>, <<>>, Opened \o PrepareFailed(sql, NewConn))
        ELSE IF st.rc # "SQLITE_DONE"
        THEN Ended(st.db, e, "error", <<>>, AfterFinalize(c), run)
        ELSE Ended(st.db, e, "ok", <<>>, AfterFinalize(c), run)

\* Mutant of DeleteBound: every value of the record is bound.
DeleteBoundAll(values) == values

\* The values DeleteEntity and DeleteEntities bind: the zeroth only.
DeleteBound(values) == <<values[1]>>

\* DbService::DeleteEntity.
DoDeleteEntity(db, tabs, cs, e, canOpen) ==
    LET t      == e.tableName
        sql    == DeleteSql(t)
        bound  == DeleteBound(GetValues(e))
        c      == ForeignKeysOn(WithStatement(NewConn))
        st     == IF WriteLocked(cs) THEN [rc |-> "SQLITE_BUSY", db |-> db]
                  ELSE SqlDelete(db, t, Bind(NoBinds, bound), c.fk)
        run    == Opened \o Prepared(sql) \o BindLog(bound) \o <<PragmaFk>> \o
                  <<Call("step", "", st.rc)>> \o FinalizeClose(c)
    IN  IF ~canOpen THEN Ended(db, e, "error", <<>>, <<>>, OpenFailed)
        ELSE IF t \notin tabs
        THEN Ended(db, e, "error", <<>>, <<>>, Opened \o PrepareFailed(sql, NewConn))
        ELSE IF st.rc \notin {"SQLITE_DONE", "SQLITE_ROW"}
        THEN Ended(st.db, e, "error", <<>>, AfterFinalize(c), run)
        ELSE Ended(st.db, e, "ok", <<>>, AfterFinalize(c), run)

\* DbService::RetrieveEntity.  ndebug tells whether the build defines NDEBUG
\* (assert compiled out).  When the SELECT finds no row, sqlite3_step gives
\* SQLITE_DONE, which passes the error test: the assert ends the process, or
\* without it FillEntity runs on a statement that has no row.
DoRetrieveEntity(db, tabs, cs, e, canOpen, ndebug) ==
    LET t      == e.tableName
        sql    == SelectSql(t) \o " WHERE " \o KeyName(t) \o " = :" \o KeyName(t)
        bound  == <<GetValues(e)[1]>>
        c      == WithStatement(NewConn)
        rows   == SqlSelect(db, t, KeyName(t), CellOf(bound[1]))
        rc     == IF rows = <<>> THEN "SQLITE_DONE" ELSE "SQLITE_ROW"
        run    == Opened \o Prepared(sql) \o BindLog(bound) \o <<Call("step", "", rc)>>
        norow  == FillNoRowFrom(e, 1)
    IN  IF ~canOpen THEN Ended(db, e, "error", <<>>, <<>>, OpenFailed)
        ELSE IF t \notin tabs
        THEN Ended(db, e, "error", <<>>, <<>>, Opened \o PrepareFailed(sql, NewConn))
        ELSE IF rc = "SQLITE_ROW"
        THEN Ended(db, FillEntity(e, rows[1]), "ok", <<>>, AfterFinalize(c),
                   run \o FinalizeClose(c))
        ELSE IF ~ndebug THEN Ended(db, e, "abort", <<>>, <<c>>, run)
        ELSE IF ~norow.done THEN Ended(db, norow.ent, "abort", <<>>, <<c>>, run)
        ELSE Ended(db, norow.ent, "ok", <<>>, AfterFinalize(c), run \o FinalizeClose(c))

\* DbService::RetrieveEntities<TEntity>(predicate).
DoRetrieveEntities(db, tabs, cs, t, pred, canOpen) ==
    LET sql    == SelectSql(t) \o " WHERE " \o pred
        c      == WithStatement(NewConn)
        rows   == SqlSelectWhere(db, t, pred)
        steps  == [k \in 1..(Len(rows) + 1) |->
                    Call("step", "", IF k <= Len(rows) THEN "SQLITE_ROW" ELSE "SQLITE_DONE")]
    IN  IF ~canOpen THEN Ended(db, <<>>, "error", <<>>, <<>>, OpenFailed)
        ELSE IF t \notin tabs \/ ~WellFormed(t, pred)
        THEN Ended(db, <<>>, "error", <<>>, <<>>, Opened \o PrepareFailed(sql, NewConn))
        ELSE Ended(db, <<>>, "ok",
                   [k \in DOMAIN rows |-> FillEntity(NewEntity(t), rows[k])],
                   AfterFinalize(c),
                   Opened \o Prepared(sql) \o steps \o FinalizeClose(c))

\* Mutant of ChildPredicate: the predicate is put on the zeroth column of
\* TEntity instead of on the column that names the parent's table.
ChildPredicateOnKey(t, parent) ==
    IF \A k \in DOMAIN GetSchema(t) : GetSchema(t)[k].foreignKey # parent.tableName
    THEN ""
    ELSE PredText(GetSchema(t)[1].name, GetValues(parent)[1].i)

\* The predicate DbService::RetrieveChildEntities<TEntity>(parent) builds
\* from the first column of TEntity whose foreign table is the parent's
\* table; "" when TEntity has no such column.
ChildPredicate(t, parent) ==
    LET cols == GetSchema(t)
        hits == {k \in DOMAIN cols : cols[k].foreignKey = parent.tableName}
    IN  IF hits = {} THEN ""
        ELSE PredText(cols[CHOOSE k \in hits : \A j \in hits : k <= j].name,
                      GetValues(parent)[1].i)

\* Mutant of DoRetrieveChildEntities: the query is made even when no
\* predicate was built.
DoRetrieveChildEntitiesAlways(db, tabs, cs, t, parent, canOpen) ==
    [DoRetrieveEntities(db, tabs, cs, t, ChildPredicate(t, parent), canOpen)
        EXCEPT !.ent = parent]

\* DbService::RetrieveChildEntities<TEntity>(parent).
DoRetrieveChildEntities(db, tabs, cs, t, parent, canOpen) ==
    IF ChildPredicate(t, parent) = ""
    THEN Ended(db, parent, "ok", <<>>, <<>>, <<>>)
    ELSE [DoRetrieveEntities(db, tabs, cs, t, ChildPredicate(t, parent), canOpen)
            EXCEPT !.ent = parent]

---------------------------------------------------------------------------
(* The batch operations of DbService.                                      *)

\* The statement text a batch of the given kind prepares for table t.
BatchSql(kind, t) ==
    IF kind = "INSERT" THEN InsertSql(t)
    ELSE IF kind = "UPDATE" THEN UpdateSql(t)
    ELSE DeleteSql(t)

\* The values a batch of the given kind binds for one record.
BatchBound(kind, values) ==
    IF kind = "INSERT" THEN BindStmtParameters(values, FALSE)
    ELSE IF kind = "UPDATE" THEN BindStmtParameters(values, TRUE)
    ELSE DeleteBound(values)

\* sqlite3_step of the batch's statement on the transaction's content db.
BatchStep(kind, db, t, binds, fkOn) ==
    IF kind = "INSERT" THEN SqlInsert(db, t, binds, fkOn)
    ELSE IF kind = "UPDATE" THEN SqlUpdate(db, t, binds, fkOn) @@ [rowid |-> 0]
    ELSE SqlDelete(db, t, binds, fkOn) @@ [rowid |-> 0]

\* Mutant of AfterStep: the statement is reset and its bindings are kept.
AfterStepReset(kind, binds) == binds

\* What follows the step of one record: SaveEntities resets the statement
\* and clears its bindings, the other two only reset it.
AfterStep(kind, binds) ==
    IF kind = "INSERT" THEN NoBinds ELSE binds

AfterStepLog(kind) ==
    IF kind = "INSERT"
    THEN <<Call("reset", "", "SQLITE_OK"), Call("clear_bindings", "", "SQLITE_OK")>>
    ELSE <<Call("reset", "", "SQLITE_OK")>>

\* Mutant of BatchStart: the transaction is begun before the pragma, which
\* has no effect inside a transaction.
BatchStartBeginFirst(db, cache, es) ==
    [db |-> db, disk |-> db, c |-> BeginTransaction(NewConn),
     binds |-> NoBinds, prev |-> "", ents |-> es, how |-> "run", cache |-> cache,
     log |-> Opened \o <<Call("exec", "BEGIN TRANSACTION", "SQLITE_OK"), PragmaFk>>]

\* The locals of a batch call before its loop: the content db the
\* connection sees, the committed content disk (a step outside a transaction
\* commits at once), the connection c, the current statement's bindings,
\* previous_name, the records, the statement cache of the kind, the log, and
\* how the call stands ("run" until it throws).
BatchStart(db, cache, es) ==
    [db |-> db, disk |-> db, c |-> BeginTransaction(ForeignKeysOn(NewConn)),
     binds |-> NoBinds, prev |-> "", ents |-> es, how |-> "run", cache |-> cache,
     log |-> Opened \o <<PragmaFk, Call("exec", "BEGIN TRANSACTION", "SQLITE_OK")>>]

\* Mutant of BatchPrepare: a statement is prepared for the first record only.
BatchPrepareFirstOnly(kind, S, t) ==
    IF S.prev # ""
    THEN [again |-> FALSE, sql |-> "", c |-> S.c, binds |-> S.binds,
          log |-> <<>>, cache |-> S.cache]
    ELSE [again |-> TRUE, sql |-> BatchSql(kind, t), c |-> WithStatement(S.c),
          binds |-> NoBinds, log |-> Prepared(BatchSql(kind, t)),
          cache |-> IF kind = "DELETE" THEN S.cache
                    ELSE CachePut(S.cache, t, BatchSql(kind, t))]

\* "if (entity->tableName != previous_name)": the statement text is made
\* (and cached) and prepared again; the earlier statement is not finalized.
BatchPrepare(kind, S, t) ==
    IF t = S.prev
    THEN [again |-> FALSE, sql |-> "", c |-> S.c, binds |-> S.binds,
          log |-> <<>>, cache |-> S.cache]
    ELSE [again |-> TRUE, sql |-> BatchSql(kind, t), c |-> WithStatement(S.c),
          binds |-> NoBinds, log |-> Prepared(BatchSql(kind, t)),
          cache |-> IF kind = "DELETE" THEN S.cache
                    ELSE CachePut(S.cache, t, BatchSql(kind, t))]

\* The bind and the sqlite3_step of one record on the statement P prepared.
BatchRun(kind, cs, db, t, P, bound) ==
    [bound |-> bound,
     st |-> IF WriteLocked(cs)
            THEN [rc |-> "SQLITE_BUSY", db |-> db, rowid |-> 0]
            ELSE BatchStep(kind, db, t, Bind(P.binds, bound), P.c.fk),
     binds |-> Bind(P.binds, bound)]

\* The rest of the loop body for record k once it was prepared (P) and
\* stepped (R): the throw after a failed prepare or step, or the write-back
\* and the reset.
BatchSettle(kind, tabs, S, k, P, R, values) ==
    IF P.again /\ S.ents[k].tableName \notin tabs
    THEN [S EXCEPT !.how = "error",
                   !.cache = P.cache,
                   !.log = @ \o PrepareFailed(P.sql, S.c)]
    ELSE IF R.st.rc \notin {"SQLITE_DONE", "SQLITE_ROW"}
    THEN [S EXCEPT !.how = "error",
                   !.cache = P.cache,
                   !.c = [P.c EXCEPT !.stmts = @ - 1],
                   !.log = @ \o P.log \o BindLog(R.bound) \o
                           <<Call("step", "", R.st.rc)>> \o FinalizeClose(P.c)]
    ELSE [S EXCEPT !.db = R.st.db,
                   !.disk = IF P.c.txn THEN @ ELSE R.st.db,
                   !.c = [P.c EXCEPT !.locked = P.c.txn],
                   !.binds = AfterStep(kind, R.binds),
                   !.prev = S.ents[k].tableName,
                   !.cache = P.cache,
                   !.ents[k] = IF kind = "INSERT"
                               THEN KeyWriteBack(@, values, R.st.rowid) ELSE @,
                   !.log = @ \o P.log \o BindLog(R.bound) \o
                           <<Call("step", "", R.st.rc)>> \o AfterStepLog(kind)]

\* One pass of the loop body, for record k.
BatchPrepared(kind, tabs, cs, S, k, P, values) ==
    BatchSettle(kind, tabs, S, k, P,
                BatchRun(kind, cs, S.db, S.ents[k].tableName, P,
                         BatchBound(kind, values)),
                values)

BatchOne(kind, tabs, cs, S, k) ==
    BatchPrepared(kind, tabs, cs, S, k,
                  BatchPrepare(kind, S, S.ents[k].tableName), GetValues(S.ents[k]))

RECURSIVE BatchFrom(_, _, _, _, _)
\* The loop "for (Retrievable *entity : entities)" from record k on; it is
\* left by the throw of a failed pass.
BatchFrom(kind, tabs, cs, S, k) ==
    IF k > Len(S.ents) \/ S.how = "error" THEN S
    ELSE BatchFrom(kind, tabs, cs, BatchOne(kind, tabs, cs, S, k), k + 1)

\* Mutant of BatchEnded: the transaction is never ended.
BatchEndedOpen(S) ==
    IF S.how = "error"
    THEN Ended(S.disk, S.ents, "error", <<>>, LeftOpen(S.c), S.log) @@ [cache |-> S.cache]
    ELSE Ended(S.disk, S.ents, "ok", <<>>, AfterFinalize(S.c),
               S.log \o FinalizeClose(S.c)) @@ [cache |-> S.cache]

\* What follows the loop: the throw is passed on, or END TRANSACTION commits
\* and the last statement is finalized and the connection closed.
BatchEnded(S) ==
    IF S.how = "error"
    THEN Ended(S.disk, S.ents, "error", <<>>, LeftOpen(S.c), S.log) @@ [cache |-> S.cache]
    ELSE Ended(S.db, S.ents, "ok", <<>>,
               AfterFinalize([S.c EXCEPT !.txn = FALSE, !.locked = FALSE]),
               S.log \o <<Call("exec", "END TRANSACTION", "SQLITE_OK")>> \o
               FinalizeClose([S.c EXCEPT !.txn = FALSE, !.locked = FALSE]))
         @@ [cache |-> S.cache]

\* Mutant of DoBatch: an empty list is not turned away.
DoBatchOfAnyList(kind, db, tabs, cs, cache, es, canOpen) ==
    IF ~canOpen
    THEN Ended(db, es, "error", <<>>, <<>>, OpenFailed) @@ [cache |-> cache]
    ELSE BatchEnded(BatchFrom(kind, tabs, cs, BatchStart(db, cache, es), 1))

\* DbService::SaveEntities / UpdateEntities / DeleteEntities on the list es.
DoBatch(kind, db, tabs, cs, cache, es, canOpen) ==
    IF es = <<>>
    THEN Ended(db, es, "error", <<>>, <<>>, <<>>) @@ [cache |-> cache]
    ELSE IF ~canOpen
    THEN Ended(db, es, "error", <<>>, <<>>, OpenFailed) @@ [cache |-> cache]
    ELSE BatchEnded(BatchFrom(kind, tabs, cs, BatchStart(db, cache, es), 1))

\* DbService::SaveEntities.
DoSaveEntities(db, tabs, cs, cache, es, canOpen) ==
    DoBatch("INSERT", db, tabs, cs, cache, es, canOpen)

\* DbService::UpdateEntities.
DoUpdateEntities(db, tabs, cs, cache, es, canOpen) ==
    DoBatch("UPDATE", db, tabs, cs, cache, es, canOpen)

\* DbService::DeleteEntities (its statement text is not cached).
DoDeleteEntities(db, tabs, cs, es, canOpen) ==
    DoBatch("DELETE", db, tabs, cs, NoBinds, es, canOpen)

---------------------------------------------------------------------------
(* The state machine.                                                      *)

EmptyStore == [t \in Tables |-> <<>>]

Init ==
    /\ store = EmptyStore
    /\ present \in {Tables, {"Hosts"}}
    /\ conns = <<>>
    /\ sqlInsertCache = NoBinds
    /\ sqlSelectCache = NoBinds
    /\ sqlUpdateCache = NoBinds
    /\ op = "none"
    /\ arg = <<>>
    /\ ent = <<>>
    /\ outcome = "ok"
    /\ result = <<>>
    /\ pre = EmptyStore
    /\ log = <<>>
    /\ objs = <<>>
    /\ before = <<>>

\* The model keeps the store's keys within 1..MaxKey.
KeysBounded(db) ==
    \A t \in Tables : \A k \in DOMAIN db[t] : db[t][k].rowid <= MaxKey

\* The calls the model tries while the store cannot be opened: those on a
\* record whose key field holds 1.
Tried(e, canOpen) == canOpen \/ e.f[KeyName(e.tableName)] = 1

\* The call `name` with argument a ended as r: the caller is between calls,
\* the result stays within the bounds, and the call is recorded.
Returns(name, a, r) ==
    /\ op = "none"
    /\ KeysBounded(r.db)
    /\ r.outcome = "abort" \/ Len(conns \o r.left) <= MaxLeaked
    /\ op' = name
    /\ arg' = a
    /\ ent' = r.ent
    /\ outcome' = r.outcome
    /\ result' = r.result
    /\ log' = r.log
    /\ pre' = store
    /\ store' = r.db
    /\ conns' = conns \o r.left
    /\ present' = present
    /\ UNCHANGED <<objs, before>>

SaveEntity ==
    \E e \in Records, canOpen \in BOOLEAN :
        /\ Tried(e, canOpen)
        /\ Returns("SaveEntity", e, DoSaveEntity(store, present, conns, e, canOpen))
        /\ sqlInsertCache' = PrepareInsertSql(sqlInsertCache, e.tableName)
        /\ UNCHANGED <<sqlSelectCache, sqlUpdateCache>>

UpdateEntity ==
    \E e \in Records, canOpen \in BOOLEAN :
        /\ Tried(e, canOpen)
        /\ Returns("UpdateEntity", e, DoUpdateEntity(store, present, conns, e, canOpen))
        /\ sqlUpdateCache' = PrepareUpdateSql(sqlUpdateCache, e.tableName)
        /\ UNCHANGED <<sqlInsertCache, sqlSelectCache>>

DeleteEntity ==
    \E e \in FreshRecords, canOpen \in BOOLEAN :
        /\ Tried(e, canOpen)
        /\ Returns("DeleteEntity", e, DoDeleteEntity(store, present, conns, e, canOpen))
        /\ UNCHANGED <<sqlInsertCache, sqlSelectCache, sqlUpdateCache>>

RetrieveEntity ==
    \E e \in FreshRecords, canOpen \in BOOLEAN, ndebug \in BOOLEAN :
        /\ Tried(e, canOpen)
        /\ Returns("RetrieveEntity", e,
                   DoRetrieveEntity(store, present, conns, e, canOpen, ndebug))
        /\ sqlSelectCache' = PrepareSelectSql(sqlSelectCache, e.tableName)
        /\ UNCHANGED <<sqlInsertCache, sqlUpdateCache>>

\* The predicates RetrieveEntities is called with: an equality on the
\* table's key, and one the store cannot parse.
Predicates(t) == {PredText(KeyName(t), n) : n \in 1..MaxKey} \cup {"="}

RetrieveEntities ==
    \E t \in Tables, canOpen \in BOOLEAN : \E pred \in Predicates(t) :
        /\ canOpen \/ pred = PredText(KeyName(t), 1)
        /\ Returns("RetrieveEntities", [tableName |-> t, pred |-> pred],
                   [DoRetrieveEntities(store, present, conns, t, pred, canOpen)
                        EXCEPT !.ent = [tableName |-> t, pred |-> pred]])
        /\ sqlSelectCache' = PrepareSelectSql(sqlSelectCache, t)
        /\ UNCHANGED <<sqlInsertCache, sqlUpdateCache>>

RetrieveChildEntities ==
    \E t \in Tables, parent \in FreshRecords, canOpen \in BOOLEAN :
        /\ Tried(parent, canOpen)
        /\ Returns("RetrieveChildEntities", [tableName |-> t, parent |-> parent],
                   [DoRetrieveChildEntities(store, present, conns, t, parent, canOpen)
                        EXCEPT !.ent = [tableName |-> t, parent |-> parent]])
        /\ sqlSelectCache' = IF ChildPredicate(t, parent) = "" THEN sqlSelectCache
                             ELSE PrepareSelectSql(sqlSelectCache, t)
        /\ UNCHANGED <<sqlInsertCache, sqlUpdateCache>>

\* The records the batch operations are called with: those whose char*
\* field, if they have one, is set.
BatchRecords ==
    {r \in Records : r.tableName = "Hosts" => ~r.f.address_ip.null}

\* The lists the batch operations are called with.
Batches == {<<>>} \cup SeqsUpTo(BatchRecords, MaxBatch)

TriedBatch(es, canOpen) == canOpen \/ (Len(es) = 1 /\ Tried(es[1], FALSE))

\* A batch call ended as r: as Returns, and the cache of the call's kind is
\* as the call left it.
BatchReturns(name, a, r) ==
    /\ Returns(name, a, r)
    /\ sqlInsertCache' = IF name = "SaveEntities" THEN r.cache ELSE sqlInsertCache
    /\ sqlUpdateCache' = IF name = "UpdateEntities" THEN r.cache ELSE sqlUpdateCache
    /\ UNCHANGED sqlSelectCache

SaveEntities ==
    \E es \in Batches, canOpen \in BOOLEAN :
        /\ TriedBatch(es, canOpen)
        /\ BatchReturns("SaveEntities", es,
                        DoSaveEntities(store, present, conns, sqlInsertCache, es, canOpen))

UpdateEntities ==
    \E es \in Batches, canOpen \in BOOLEAN :
        /\ TriedBatch(es, canOpen)
        /\ BatchReturns("UpdateEntities", es,
                        DoUpdateEntities(store, present, conns, sqlUpdateCache, es, canOpen))

DeleteEntities ==
    \E es \in Batches, canOpen \in BOOLEAN :
        /\ TriedBatch(es, canOpen)
        /\ BatchReturns("DeleteEntities", es,
                        DoDeleteEntities(store, present, conns, es, canOpen))

\* The records of the longer lists: a Host and a Service with key 0 or 1,
\* the Service a child of host 1.
OrderRecords ==
    {r \in BatchRecords : r.f[KeyName(r.tableName)] <= 1 /\ (r.tableName = "Services" => r.f.host_id = 1)}

\* The longer lists the batch operations are called with: lists of OrderLen
\* records, in which records of one table may have a record of another
\* table between them.
OrderBatches == [1..OrderLen -> OrderRecords]

SaveEntitiesInOrder ==
    \E es \in OrderBatches :
        BatchReturns("SaveEntities", es,
                     DoSaveEntities(store, present, conns, sqlInsertCache, es, TRUE))

UpdateEntitiesInOrder ==
    \E es \in OrderBatches :
        BatchReturns("UpdateEntities", es,
                     DoUpdateEntities(store, present, conns, sqlUpdateCache, es, TRUE))

DeleteEntitiesInOrder ==
    \E es \in OrderBatches :
        BatchReturns("DeleteEntities", es,
                     DoDeleteEntities(store, present, conns, es, TRUE))

\* The caller goes on to its next call: the record of the last call is
\* dropped.  A process that was aborted makes no further call.
NextCall ==
    /\ op # "none"
    /\ outcome # "abort"
    /\ op' = "none"
    /\ arg' = <<>>
    /\ ent' = <<>>
    /\ outcome' = "ok"
    /\ result' = <<>>
    /\ log' = <<>>
    /\ pre' = store
    /\ before' = objs
    /\ UNCHANGED <<store, present, conns, sqlInsertCache, sqlSelectCache, sqlUpdateCache, objs>>

\* The single-entity operations.
Next ==
    \/ SaveEntity
    \/ UpdateEntity
    \/ DeleteEntity
    \/ RetrieveEntity
    \/ RetrieveEntities
    \/ RetrieveChildEntities
    \/ NextCall

Spec == Init /\ [][Next]_vars

\* The batch operations.
NextBatch ==
    \/ SaveEntities
    \/ UpdateEntities
    \/ DeleteEntities
    \/ NextCall

SpecBatch == Init /\ [][NextBatch]_vars

\* The batch operations on the longer lists.
NextOrder ==
    \/ SaveEntitiesInOrder
    \/ UpdateEntitiesInOrder
    \/ DeleteEntitiesInOrder
    \/ NextCall

SpecOrder == Init /\ [][NextOrder]_vars

\* The six writing operations, single and batch.
NextWrite ==
    \/ SaveEntity
    \/ UpdateEntity
    \/ DeleteEntity
    \/ SaveEntities
    \/ UpdateEntities
    \/ DeleteEntities
    \/ NextCall

SpecWrite == Init /\ [][NextWrite]_vars

---------------------------------------------------------------------------
(* Texts handed to and returned by the string interface of a record.  A    *)
(* text is a sequence of characters.                                       *)

\* The characters of the texts the model hands in.
Chars == {"0", "2", "a", "-", " "}

\* The texts the model hands in: up to MaxText characters.
Texts == UNION {[1..n -> Chars] : n \in 0..MaxText}

Digits == <<"0", "1", "2", "3", "4", "5", "6", "7", "8", "9">>

IsDigit(c) == \E d \in DOMAIN Digits : Digits[d] = c

DigitOf(c) == (CHOOSE d \in DOMAIN Digits : Digits[d] = c) - 1

RECURSIVE SkipSpace(_)
\* strtol skips the white space a text begins with.
SkipSpace(t) ==
    IF t # <<>> /\ Head(t) = " " THEN SkipSpace(Tail(t)) ELSE t

RECURSIVE ReadDigits(_, _)
\* strtol reads digits up to the first character that is none; what
\* follows is ignored.  n counts the digits read, val is their value.
ReadDigits(t, acc) ==
    IF t # <<>> /\ IsDigit(Head(t))
    THEN ReadDigits(Tail(t), [n |-> acc.n + 1, val |-> 10 * acc.val + DigitOf(Head(t))])
    ELSE acc

\* The digits of a text after its white space and sign.
Unsigned(t) ==
    IF t # <<>> /\ Head(t) \in {"-", "+"} THEN Tail(t) ELSE t

\* std::stol(value): white space, an optional sign, then digits; it throws
\* std::invalid_argument when there is no digit to read.
Stol(t) ==
    LET body == SkipSpace(t)
        read == ReadDigits(Unsigned(body), [n |-> 0, val |-> 0])
    IN  [ok  |-> read.n > 0,
         val |-> IF body # <<>> /\ Head(body) = "-" THEN 0 - read.val ELSE read.val]

RECURSIVE DigitsOf(_)
\* The decimal digits of a natural number.
DigitsOf(n) ==
    IF n < 10 THEN <<Digits[n + 1]>>
    ELSE DigitsOf(n \div 10) \o <<Digits[(n % 10) + 1]>>

\* std::to_string of an int64_t.
ToDecimal(n) == IF n < 0 THEN <<"-">> \o DigitsOf(0 - n) ELSE DigitsOf(n)

\* StringKey::GetValues() of the example program, the text key holding k: a
\* record class whose zeroth field is a std::string.
StringKeyValues(k) ==
    << [name |-> "sk_id", type |-> "DB_TEXT", size |-> 0, i |-> 0, s |-> k],
       [name |-> "description", type |-> "DB_TEXT", size |-> 0, i |-> 0, s |-> ""] >>

---------------------------------------------------------------------------
(* Record objects and their registry.                                      *)

\* The classes of the record objects: Service of the example program, a
\* class with a 1-byte and a 2-byte integer field, a class whose Initialize()
\* registers no field, and a class whose Initialize() registers the name
\* "id" twice.
Classes == {"Service", "Widths", "Empty", "Twice"}

\* The constructor argument of a class: its table name.
TableOf(cls) ==
    IF cls = "Service" THEN "Services"
    ELSE IF cls = "Widths" THEN "Widths"
    ELSE IF cls = "Empty" THEN "Empties"
    ELSE "Twices"

\* The RegisterField calls of a class's Initialize(), in order: the column
\* description and the member whose address is handed in.
Registrations(cls) ==
    IF cls = "Service"
    THEN [k \in DOMAIN ServiceSchema |->
            ServiceSchema[k] @@ [member |-> ServiceSchema[k].name]]
    ELSE IF cls = "Widths"
    THEN << [name |-> "w1", type |-> "DB_INTEGER", size |-> 1, foreignKey |-> "",
             member |-> "w1"],
            [name |-> "w2", type |-> "DB_INTEGER", size |-> 2, foreignKey |-> "",
             member |-> "w2"] >>
    ELSE IF cls = "Empty" THEN <<>>
    ELSE << [name |-> "id", type |-> "DB_INTEGER", size |-> 4, foreignKey |-> "",
             member |-> "id"],
            [name |-> "id", type |-> "DB_INTEGER", size |-> 4, foreignKey |-> "",
             member |-> "other"] >>

\* The members of a default-constructed object of a class.
DefaultFields(cls) ==
    IF cls = "Service" THEN [service_id |-> 0, host_id |-> 0, name |-> <<>>, port |-> 0]
    ELSE IF cls = "Widths" THEN [w1 |-> 0, w2 |-> 0]
    ELSE IF cls = "Empty" THEN <<>>
    ELSE [id |-> 0, other |-> 0]

\* Retrievable::Retrievable(tableName): the registry (name map, ordered
\* descriptor list, schema) is empty.  inits counts the runs of Initialize()
\* on the object's registry.
Construct(cls) ==
    [cls |-> cls, tableName |-> TableOf(cls), f |-> DefaultFields(cls),
     map |-> <<>>, vec |-> <<>>, schema |-> <<>>, inits |-> 0]

\* A schema entry made from a descriptor.
SchemaOf(p) ==
    [name |-> p.name, type |-> p.type, size |-> p.size, foreignKey |-> p.foreignKey]

\* Retrievable::SavePrototype(prototype) on object o.  The insert into the
\* name map fails on a name that is there already; assert(ret.second) then
\* ends the process, or, compiled out (ndebug), the entry that is there is
\* pushed once more on the descriptor list and on the schema.
SavePrototype(o, p, ndebug) ==
    IF p.name \in DOMAIN o.map
    THEN IF ~ndebug THEN [o |-> o, how |-> "abort"]
         ELSE [o |-> [o EXCEPT !.vec = Append(@, p.name),
                               !.schema = Append(@, SchemaOf(o.map[p.name]))],
               how |-> "ok"]
    ELSE [o |-> [o EXCEPT !.map = [x \in DOMAIN o.map \cup {p.name} |->
                                    IF x = p.name THEN p ELSE o.map[x]],
                          !.vec = Append(@, p.name),
                          !.schema = Append(@, SchemaOf(p))],
          how |-> "ok"]

RECURSIVE RegisterFrom(_, _, _, _)
\* The RegisterField calls k.. of Initialize() on the object named id: each
\* descriptor holds the address of a member of that object.
RegisterFrom(R, id, k, ndebug) ==
    IF k > Len(Registrations(R.o.cls)) \/ R.how = "abort" THEN R
    ELSE RegisterFrom(
            SavePrototype(R.o,
                [name       |-> Registrations(R.o.cls)[k].name,
                 type       |-> Registrations(R.o.cls)[k].type,
                 size       |-> Registrations(R.o.cls)[k].size,
                 foreignKey |-> Registrations(R.o.cls)[k].foreignKey,
                 field      |-> [obj |-> id, member |-> Registrations(R.o.cls)[k].member]],
                ndebug),
            id, k + 1, ndebug)

\* The virtual Initialize() of the object named id.
Initialize(o, id, ndebug) ==
    RegisterFrom([o |-> [o EXCEPT !.inits = @ + 1], how |-> "ok"], id, 1, ndebug)

\* An accessor that runs Initialize() on every call.
AccessorAlways(o, id, ndebug) == Initialize(o, id, ndebug)

\* PrototypesAccessor::GetPrototypesVector / GetPrototypesMap / GetSchema
\* with adding = false: Initialize() runs when the schema is empty.
Accessor(o, id, ndebug) ==
    IF o.schema = <<>> THEN Initialize(o, id, ndebug) ELSE [o |-> o, how |-> "ok"]

\* The objects after the accessor ran on the object named id.
Accessed(os, id, ndebug) ==
    [os |-> [os EXCEPT ![id] = Accessor(os[id], id, ndebug).o],
     how |-> Accessor(os[id], id, ndebug).how]

\* The member a descriptor points at.
Deref(os, d) == os[d.field.obj].f[d.field.member]

\* How a call on a record object ends.
Done(os, how, res) == [objs |-> os, outcome |-> how, result |-> res]

\* Retrievable::GetValue(name) on the object named id, R being what the
\* accessor left: a DbValue made from the descriptor found under the name.
GetValueOf(R, id, name) ==
    IF R.how = "abort" THEN Done(R.os, "abort", <<>>)
    ELSE IF name \notin DOMAIN R.os[id].map THEN Done(R.os, "error", "runtime_error")
    ELSE Done(R.os, "ok", DbValue(R.os[id].map[name], Deref(R.os, R.os[id].map[name])))

\* Retrievable::GetValues() of the record objects: one DbValue per entry of
\* the descriptor list.
GetValuesOf(R, id) ==
    IF R.how = "abort" THEN Done(R.os, "abort", <<>>)
    ELSE Done(R.os, "ok",
              [k \in DOMAIN R.os[id].vec |->
                  DbValue(R.os[id].map[R.os[id].vec[k]],
                          Deref(R.os, R.os[id].map[R.os[id].vec[k]]))])

\* The switch of GetStrValue: std::to_string of the int64_t behind an integer
\* value, the characters behind a text value.
ToStr(v) == IF v.type = "DB_INTEGER" THEN ToDecimal(v.i) ELSE v.s

\* Retrievable::GetStrValue(name).
GetStrValueOf(R, id, name) ==
    IF R.how = "abort" THEN Done(R.os, "abort", <<>>)
    ELSE IF name \notin DOMAIN R.os[id].map THEN Done(R.os, "error", "runtime_error")
    ELSE Done(R.os, "ok",
              ToStr(DbValue(R.os[id].map[name], Deref(R.os, R.os[id].map[name]))))

\* Retrievable::GetSchema() of the record objects.
GetSchemaOf(R, id) ==
    IF R.how = "abort" THEN Done(R.os, "abort", <<>>)
    ELSE Done(R.os, "ok", R.os[id].schema)

\* The switch of SetValue: the member descriptor d points at takes the text s
\* (a fresh buffer for a char* member, assign for a std::string) or the low
\* `size` bytes of the int64_t i.
Write(os, d, i, s) ==
    [os EXCEPT ![d.field.obj].f[d.field.member] =
        IF d.type = "DB_TEXT"
        THEN (IF d.size > 0 THEN CStr(s) ELSE s)
        ELSE DecodeInteger(i, d.size)]

\* A SetValue that writes through the object's first descriptor, whatever the name.
SetValueUnchecked(R, id, name, i, s) ==
    IF R.how = "abort" THEN Done(R.os, "abort", <<>>)
    ELSE IF R.os[id].vec = <<>> THEN Done(R.os, "error", "runtime_error")
    ELSE IF name \notin DOMAIN R.os[id].map
    THEN Done(Write(R.os, R.os[id].map[R.os[id].vec[1]], i, s), "error", "runtime_error")
    ELSE Done(Write(R.os, R.os[id].map[name], i, s), "ok", <<>>)

\* Retrievable::SetValue(name, value) on the object named id.
SetValueOf(R, id, name, i, s) ==
    IF R.how = "abort" THEN Done(R.os, "abort", <<>>)
    ELSE IF name \notin DOMAIN R.os[id].map THEN Done(R.os, "error", "runtime_error")
    ELSE Done(Write(R.os, R.os[id].map[name], i, s), "ok", <<>>)

\* Retrievable::SetStrValue(name, value): stol on an integer field, whose
\* exception propagates; the characters themselves on a text field.  The
\* SetValue it calls finds the registry built.
SetStrValueOf(R, id, name, text) ==
    IF R.how = "abort" THEN Done(R.os, "abort", <<>>)
    ELSE IF name \notin DOMAIN R.os[id].map THEN Done(R.os, "error", "runtime_error")
    ELSE IF R.os[id].map[name].type = "DB_INTEGER"
    THEN (IF Stol(text).ok
          THEN SetValueOf(R, id, name, Stol(text).val, <<>>)
          ELSE Done(R.os, "error", "invalid_argument"))
    ELSE SetValueOf(R, id, name, 0, text)

\* A copy that takes the source's registry along with its members.
CopyWithRegistry(src) == src

\* The copy and move constructors of a record class: Retrievable(other)
\* delegates to Retrievable(other.tableName), so the registry starts empty;
\* the class's own members are copied from the source.
CopyOf(src) ==
    [Construct(src.cls) EXCEPT !.tableName = src.tableName, !.f = src.f]

\* Retrievable::operator= followed by the class's member-wise assignment: the
\* table name and the members are the source's, the accessor is destroyed
\* and built anew, so the registry is empty and Initialize() has not run on it.
Assigned(dst, src) ==
    [dst EXCEPT !.tableName = src.tableName, !.f = src.f,
                !.map = <<>>, !.vec = <<>>, !.schema = <<>>, !.inits = 0]

\* The members of an object that was moved from: a std::string member is
\* left in a valid but unspecified state, here either as it was or empty.
MovedFrom(src, emptied) ==
    IF src.cls = "Service" /\ emptied THEN [src EXCEPT !.f.name = <<>>] ELSE src

---------------------------------------------------------------------------
(* The calls on record objects.                                            *)

\* The names of the two record objects of a program.
Objects == {"a", "b"}

\* The names the calls are tried with: registered ones and one that no
\* class registers.
NamesTried(cls) ==
    IF cls = "Service" THEN {"service_id", "name", "nope"}
    ELSE IF cls = "Widths" THEN {"w1", "nope"}
    ELSE {"id", "nope"}

\* The texts SetStrValue is tried with between other calls.
TextsTried == {<<"7">>, <<"a">>}

\* Two default-constructed objects of one class; the store is not used.
InitRecord ==
    /\ store = EmptyStore
    /\ present = Tables
    /\ conns = <<>>
    /\ sqlInsertCache = NoBinds
    /\ sqlSelectCache = NoBinds
    /\ sqlUpdateCache = NoBinds
    /\ op = "none"
    /\ arg = <<>>
    /\ ent = <<>>
    /\ outcome = "ok"
    /\ result = <<>>
    /\ pre = EmptyStore
    /\ log = <<>>
    /\ objs \in {[id \in Objects |-> Construct(cls)] : cls \in Classes}
    /\ before = objs

\* The call `name` with argument a on the record objects ended as r.
RecordReturns(name, a, r) ==
    /\ op = "none"
    /\ \A id \in DOMAIN r.objs : r.objs[id].inits <= MaxInits
    /\ op' = name
    /\ arg' = a
    /\ outcome' = r.outcome
    /\ result' = r.result
    /\ objs' = r.objs
    /\ before' = objs
    /\ UNCHANGED <<store, present, conns, sqlInsertCache, sqlSelectCache,
                   sqlUpdateCache, ent, pre, log>>

GetValue ==
    \E id \in DOMAIN objs : \E name \in NamesTried(objs[id].cls) : \E ndebug \in BOOLEAN :
        RecordReturns("GetValue", [obj |-> id, name |-> name, ndebug |-> ndebug],
                      GetValueOf(Accessed(objs, id, ndebug), id, name))

GetValuesOfRecord ==
    \E id \in DOMAIN objs : \E ndebug \in BOOLEAN :
        RecordReturns("GetValues", [obj |-> id, ndebug |-> ndebug],
                      GetValuesOf(Accessed(objs, id, ndebug), id))

GetStrValue ==
    \E id \in DOMAIN objs : \E name \in NamesTried(objs[id].cls) : \E ndebug \in BOOLEAN :
        RecordReturns("GetStrValue", [obj |-> id, name |-> name, ndebug |-> ndebug],
                      GetStrValueOf(Accessed(objs, id, ndebug), id, name))

GetSchemaOfRecord ==
    \E id \in DOMAIN objs : \E ndebug \in BOOLEAN :
        RecordReturns("GetSchema", [obj |-> id, ndebug |-> ndebug],
                      GetSchemaOf(Accessed(objs, id, ndebug), id))

\* SetValue with a pointer at the int64_t 7 or at the text "a", as the
\* field's kind asks.
SetValueOfRecord ==
    \E id \in DOMAIN objs : \E name \in NamesTried(objs[id].cls) : \E ndebug \in BOOLEAN :
        RecordReturns("SetValue", [obj |-> id, name |-> name, ndebug |-> ndebug],
                      SetValueOf(Accessed(objs, id, ndebug), id, name, 7, <<"a">>))

SetStrValue ==
    \E id \in DOMAIN objs : \E name \in NamesTried(objs[id].cls) :
    \E text \in TextsTried : \E ndebug \in BOOLEAN :
        RecordReturns("SetStrValue",
                      [obj |-> id, name |-> name, text |-> text, ndebug |-> ndebug],
                      SetStrValueOf(Accessed(objs, id, ndebug), id, name, text))

CopyConstruct ==
    \E dst \in DOMAIN objs : \E src \in DOMAIN objs \ {dst} :
        RecordReturns("CopyConstruct", [obj |-> dst, from |-> src],
                      Done([objs EXCEPT ![dst] = CopyOf(objs[src])], "ok", <<>>))

MoveConstruct ==
    \E dst \in DOMAIN objs : \E src \in DOMAIN objs \ {dst} : \E emptied \in BOOLEAN :
        RecordReturns("MoveConstruct", [obj |-> dst, from |-> src],
                      Done([objs EXCEPT ![dst] = CopyOf(objs[src]),
                                        ![src] = MovedFrom(objs[src], emptied)], "ok", <<>>))

CopyAssign ==
    \E dst \in DOMAIN objs : \E src \in DOMAIN objs \ {dst} :
        RecordReturns("CopyAssign", [obj |-> dst, from |-> src],
                      Done([objs EXCEPT ![dst] = Assigned(objs[dst], objs[src])], "ok", <<>>))

MoveAssign ==
    \E dst \in DOMAIN objs : \E src \in DOMAIN objs \ {dst} : \E emptied \in BOOLEAN :
        RecordReturns("MoveAssign", [obj |-> dst, from |-> src],
                      Done([objs EXCEPT ![dst] = Assigned(objs[dst], objs[src]),
                                        ![src] = MovedFrom(objs[src], emptied)], "ok", <<>>))

\* The calls on record objects.
NextRecord ==
    \/ GetValue
    \/ GetValuesOfRecord
    \/ GetStrValue
    \/ GetSchemaOfRecord
    \/ SetValueOfRecord
    \/ SetStrValue
    \/ CopyConstruct
    \/ MoveConstruct
    \/ CopyAssign
    \/ MoveAssign
    \/ NextCall

SpecRecord == InitRecord /\ [][NextRecord]_vars

\* The members of an object whose fields were given values after construction.
SetFields(cls) ==
    IF cls = "Service" THEN [service_id |-> 2, host_id |-> 2, name |-> <<"a">>, port |-> 2]
    ELSE [w1 |-> 2, w2 |-> 2]

\* All registered names of a class and one that is not registered.
NamesOf(cls) ==
    {Registrations(cls)[k].name : k \in DOMAIN Registrations(cls)} \cup {"nope"}

\* One object of a class with integer fields of 1, 2, 4 and 8 bytes and a
\* text field, its members at their defaults or set; the store is not used.
InitStr ==
    /\ store = EmptyStore
    /\ present = Tables
    /\ conns = <<>>
    /\ sqlInsertCache = NoBinds
    /\ sqlSelectCache = NoBinds
    /\ sqlUpdateCache = NoBinds
    /\ op = "none"
    /\ arg = <<>>
    /\ ent = <<>>
    /\ outcome = "ok"
    /\ result = <<>>
    /\ pre = EmptyStore
    /\ log = <<>>
    /\ objs \in {[id \in {"a"} |-> [Construct(cls) EXCEPT !.f = f]] :
                    <<cls, f>> \in {<<"Service", DefaultFields("Service")>>,
                                    <<"Service", SetFields("Service")>>,
                                    <<"Widths", DefaultFields("Widths")>>,
                                    <<"Widths", SetFields("Widths")>>}}
    /\ before = objs

\* SetStrValue with any text of up to MaxText characters.
SetStrValueOfText ==
    \E id \in DOMAIN objs : \E name \in NamesOf(objs[id].cls) :
    \E text \in Texts : \E ndebug \in BOOLEAN :
        RecordReturns("SetStrValue",
                      [obj |-> id, name |-> name, text |-> text, ndebug |-> ndebug],
                      SetStrValueOf(Accessed(objs, id, ndebug), id, name, text))

\* GetStrValue of the field SetStrValue has just set.
GetStrValueBack ==
    /\ op = "SetStrValue"
    /\ outcome = "ok"
    /\ op' = "GetStrValue"
    /\ outcome' = GetStrValueOf(Accessed(objs, arg.obj, arg.ndebug), arg.obj, arg.name).outcome
    /\ result' = GetStrValueOf(Accessed(objs, arg.obj, arg.ndebug), arg.obj, arg.name).result
    /\ objs' = GetStrValueOf(Accessed(objs, arg.obj, arg.ndebug), arg.obj, arg.name).objs
    /\ UNCHANGED <<store, present, conns, sqlInsertCache, sqlSelectCache,
                   sqlUpdateCache, ent, pre, log, arg, before>>

\* SetStrValue, then GetStrValue of the same field.
NextStr ==
    \/ SetStrValueOfText
    \/ GetStrValueBack

SpecStr == InitStr /\ [][NextStr]_vars

---------------------------------------------------------------------------
(* DbValue at the level of bytes.                                          *)

\* The bytes the integer fields are tried with.
EdgeBytes == {0, 1, 127, 128, 255}

\* The content of an integer field of `size` bytes, lowest byte first: its
\* lowest, middle and highest bytes drawn from EdgeBytes.
FieldBytes(size) ==
    {[k \in 1..size |-> IF k = size THEN hi ELSE IF k = 1 THEN lo ELSE mid] :
        lo \in EdgeBytes, mid \in EdgeBytes, hi \in EdgeBytes}

\* The integer fields RegisterField accepts: signed of 1, 2, 4 or 8 bytes,
\* unsigned of less than 8.
IntegerFields ==
    UNION {[size : {n}, signed : IF n < 8 THEN BOOLEAN ELSE {TRUE}, bytes : FieldBytes(n)] :
        n \in {1, 2, 4, 8}}

\* A DbValue that never fills value_arr with 0xFF.
EncodeBytesZeroFilled(type, field) ==
    [k \in 1..8 |-> IF k <= Len(field) THEN field[k] ELSE 0]

\* The first 8 bytes of value_arr after the default branch of
\* DbValue::DbValue(const dbValuePrototype&): zero from the member
\* initializer, 0xFF when the type is DB_INTEGER and the top bit of the
\* field's last byte is set, then the field's bytes copied to the front.
EncodeBytes(type, field) ==
    [k \in 1..8 |->
        IF k <= Len(field) THEN field[k]
        ELSE IF type = "DB_INTEGER" /\ field[Len(field)] >= 128 THEN 255 ELSE 0]

\* An integer field about to be encoded; the store and the record objects
\* are not used.
InitEncode ==
    /\ store = EmptyStore
    /\ present = Tables
    /\ conns = <<>>
    /\ sqlInsertCache = NoBinds
    /\ sqlSelectCache = NoBinds
    /\ sqlUpdateCache = NoBinds
    /\ op = "none"
    /\ arg \in IntegerFields
    /\ ent = <<>>
    /\ outcome = "ok"
    /\ result = <<>>
    /\ pre = EmptyStore
    /\ log = <<>>
    /\ objs = <<>>
    /\ before = <<>>

\* DbValue::DbValue(const dbValuePrototype&) on the integer field.
EncodeField ==
    /\ op = "none"
    /\ op' = "DbValue"
    /\ result' = EncodeBytes("DB_INTEGER", arg.bytes)
    /\ UNCHANGED <<store, present, conns, sqlInsertCache, sqlSelectCache,
                   sqlUpdateCache, arg, ent, outcome, pre, log, objs, before>>

SpecEncode == InitEncode /\ [][EncodeField]_vars

---------------------------------------------------------------------------
(* DbValue objects and the buffers they own.                               *)

\* sizeof(value_arr).
InlineSize == 240

\* The DbValue objects of a program, and the by-value parameter of operator=.
Slots == {"x", "y"}
Rhs == "rhs"

\* The texts DbValues are made from: short ones, the longest that fits
\* value_arr with its terminator, and two that do not fit.
ValueTexts ==
    {<<"a">>, [k \in 1..(InlineSize - 1) |-> "a"],
     [k \in 1..InlineSize |-> "a"], [k \in 1..InlineSize |-> "b"]}

\* No object: storage that holds no DbValue.
NoValue == [live |-> FALSE, value |-> 0, arr |-> <<>>]

\* DbValue::DbValue(): value points at value_arr (0), which is zeroed.
EmptyValue == [live |-> TRUE, value |-> 0, arr |-> <<>>]

\* new char[length] followed by memcpy of a text: the heap with a further
\* buffer, whose address is its place.
Allocated(heap, text) == Append(heap, [text |-> text, freed |-> 0])

\* DbValue::DbValue(const dbValuePrototype&) for a std::string field holding
\* text, built in slot x of S = [v, heap].
FromPrototype(S, x, text) ==
    IF Len(text) + 1 > InlineSize
    THEN [v |-> [S.v EXCEPT ![x] = [live |-> TRUE, value |-> Len(S.heap) + 1, arr |-> <<>>]],
          heap |-> Allocated(S.heap, text)]
    ELSE [v |-> [S.v EXCEPT ![x] = [live |-> TRUE, value |-> 0, arr |-> text]],
          heap |-> S.heap]

\* A copy constructor that copies the pointer `value`.
CopyCtorShallow(S, x, y) ==
    [v |-> [S.v EXCEPT ![x] = [S.v[y] EXCEPT !.live = TRUE]], heap |-> S.heap]

\* DbValue::DbValue(const DbValue &other), building x from y: value_arr is
\* copied when other.value points at it, else the text behind other.value
\* is copied into a new buffer.
CopyCtor(S, x, y) ==
    IF S.v[y].value = 0
    THEN [v |-> [S.v EXCEPT ![x] = [live |-> TRUE, value |-> 0, arr |-> S.v[y].arr]],
          heap |-> S.heap]
    ELSE [v |-> [S.v EXCEPT ![x] = [live |-> TRUE, value |-> Len(S.heap) + 1, arr |-> <<>>]],
          heap |-> Allocated(S.heap, S.heap[S.v[y].value].text)]

\* aw_storm::swap(first, second): value_arr is copied only for a side whose
\* value points at it; a side that takes over a buffer keeps its own
\* value_arr as it was.
swap(S, first, second) ==
    [v |-> [S.v EXCEPT
                ![first] = IF S.v[second].value = 0
                           THEN [@ EXCEPT !.value = 0, !.arr = S.v[second].arr]
                           ELSE [@ EXCEPT !.value = S.v[second].value],
                ![second] = IF S.v[first].value = 0
                            THEN [@ EXCEPT !.value = 0, !.arr = S.v[first].arr]
                            ELSE [@ EXCEPT !.value = S.v[first].value]],
     heap |-> S.heap]

\* DbValue::DbValue(DbValue &&other): an empty DbValue swapped with other.
MoveCtor(S, x, y) == swap([S EXCEPT !.v[x] = EmptyValue], x, y)

\* DbValue::~DbValue(): delete[] when value does not point at value_arr.
Dtor(S, x) ==
    [v |-> [S.v EXCEPT ![x] = NoValue],
     heap |-> IF S.v[x].value = 0 THEN S.heap
              ELSE [S.heap EXCEPT ![S.v[x].value].freed = @ + 1]]

\* DbValue::operator=(DbValue rhs), S holding the parameter rhs already
\* built: swap, then rhs is destroyed.
AssignOp(S, x) == Dtor(swap(S, x, Rhs), Rhs)

\* The text behind `value` of the DbValue in slot x.
TextOf(S, x) == IF S.v[x].value = 0 THEN S.v[x].arr ELSE S.heap[S.v[x].value].text

\* No DbValue exists and nothing was allocated; the store is not used.
InitValue ==
    /\ store = EmptyStore
    /\ present = Tables
    /\ conns = <<>>
    /\ sqlInsertCache = NoBinds
    /\ sqlSelectCache = NoBinds
    /\ sqlUpdateCache = NoBinds
    /\ op = "none"
    /\ arg = <<>>
    /\ ent = <<>>
    /\ outcome = "ok"
    /\ result = <<>>
    /\ pre = EmptyStore
    /\ log = <<>>
    /\ objs = [v |-> [s \in Slots \cup {Rhs} |-> NoValue], heap |-> <<>>]
    /\ before = objs

\* The operation `name` with argument a left the DbValues and the heap as S.
ValueReturns(name, a, S) ==
    /\ Len(S.heap) <= MaxAllocs
    /\ op' = name
    /\ arg' = a
    /\ objs' = S
    /\ before' = objs
    /\ UNCHANGED <<store, present, conns, sqlInsertCache, sqlSelectCache,
                   sqlUpdateCache, ent, outcome, result, pre, log>>

NewValue ==
    \E x \in Slots : \E text \in ValueTexts :
        /\ ~objs.v[x].live
        /\ ValueReturns("New", [x |-> x], FromPrototype(objs, x, text))

CopyValue ==
    \E x \in Slots : \E y \in Slots \ {x} :
        /\ ~objs.v[x].live /\ objs.v[y].live
        /\ ValueReturns("Copy", [x |-> x, y |-> y], CopyCtor(objs, x, y))

MoveValue ==
    \E x \in Slots : \E y \in Slots \ {x} :
        /\ ~objs.v[x].live /\ objs.v[y].live
        /\ ValueReturns("Move", [x |-> x, y |-> y], MoveCtor(objs, x, y))

\* x = y: the parameter is copy-constructed from y.
AssignValue ==
    \E x \in Slots : \E y \in Slots :
        /\ objs.v[x].live /\ objs.v[y].live
        /\ ValueReturns("Assign", [x |-> x, y |-> y], AssignOp(CopyCtor(objs, Rhs, y), x))

\* x = std::move(y): the parameter is move-constructed from y.
MoveAssignValue ==
    \E x \in Slots : \E y \in Slots \ {x} :
        /\ objs.v[x].live /\ objs.v[y].live
        /\ ValueReturns("MoveAssign", [x |-> x, y |-> y], AssignOp(MoveCtor(objs, Rhs, y), x))

SwapValues ==
    \E x \in Slots : \E y \in Slots \ {x} :
        /\ objs.v[x].live /\ objs.v[y].live
        /\ ValueReturns("Swap", [x |-> x, y |-> y], swap(objs, x, y))

DestroyValue ==
    \E x \in Slots :
        /\ objs.v[x].live
        /\ ValueReturns("Destroy", [x |-> x], Dtor(objs, x))

\* The operations on DbValue objects.
NextValue ==
    \/ NewValue
    \/ CopyValue
    \/ MoveValue
    \/ AssignValue
    \/ MoveAssignValue
    \/ SwapValues
    \/ DestroyValue

SpecValue == InitValue /\ [][NextValue]_vars

---------------------------------------------------------------------------
(* Schema reconciliation: the library compiled with DB_INIT.  In the       *)
(* specification SpecInit the variable `objs` holds the state of the       *)
(* process and of the database files:                                      *)
(*   initializedTables  the static set of DbService (one per process),     *)
(*   tables             file -> table -> the columns PRAGMA table_info     *)
(*                      reports (<<>>: no such table),                     *)
(*   rows               file -> the rows of the tables,                    *)
(*   caches             instance -> its sqlInsertCache,                    *)
(*   touched            the (instance, table) pairs on which an operation  *)
(*                      has opened the store (history).                    *)

\* The DbService instances of the process and their connection strings.
Instances == {"first", "second"}

Connection == [first |-> "db1", second |-> "db2"]

Files == {"db1", "db2"}

\* DbService::dbDataType2string.
dbDataType2string(type) ==
    CASE type = "DB_INTEGER" -> "integer"
      [] type = "DB_FLOAT"   -> "float"
      [] OTHER               -> "text"

\* The columns of the table that the CREATE TABLE of RecreateTable makes,
\* as PRAGMA table_info reports them: name, declared type, and pk (1 for
\* the zeroth column when it declares no foreign key).
SchemaCols(t) ==
    [i \in 1..Len(GetSchema(t)) |->
        [name |-> GetSchema(t)[i].name,
         type |-> dbDataType2string(GetSchema(t)[i].type),
         pk   |-> IF i = 1 /\ GetSchema(t)[i].foreignKey = "" THEN 1 ELSE 0]]

\* The tables the files are found with.
LayoutKinds ==
    {"match", "missing", "renamed", "retyped", "extra", "fewer", "nokey"}

Layout(t, kind) ==
    LET m == SchemaCols(t)
    IN  CASE kind = "match"   -> m
          [] kind = "missing" -> <<>>
          [] kind = "renamed" -> [m EXCEPT ![2].name = "label"]
          [] kind = "retyped" -> [m EXCEPT ![4].type = "text"]
          [] kind = "extra"   -> Append(m, [name |-> "note", type |-> "text", pk |-> 0])
          [] kind = "fewer"   -> SubSeq(m, 1, Len(m) - 1)
          [] kind = "nokey"   -> [m EXCEPT ![1].pk = 0]

\* A store in which each table holds one row.
OneRowStore ==
    DoSaveEntity(DoSaveEntity(EmptyStore, Tables, <<>>,
                              HostRecord(0, "srv", NullPtr, 42), TRUE).db,
                 Tables, <<>>, ServiceRecord(0, 1, "web", 80), TRUE).db

\* "PRAGMA table_info('t')" (dal.cpp 1029-1030).
TableInfoSql(t) == "PRAGMA table_info('" \o t \o "')"

\* The statement of RecreateTable, up to the column list.
RecreateSql(t) == "DROP TABLE IF EXISTS " \o t \o "; CREATE TABLE " \o t

\* Mutant of Inconsistent: the step after the last column is not taken.
InconsistentNoLastStep(columns, live) ==
    \E i \in 1..Len(columns) :
        \/ i > Len(live)
        \/ columns[i].name # live[i].name
        \/ dbDataType2string(columns[i].type) # live[i].type
        \/ i = 1 /\ live[i].pk = 0 /\ columns[i].foreignKey = ""

\* The loop of CheckDbSchema over the schema's columns and the step after
\* it: some column finds no row, another name, another type text, or (the
\* zeroth) pk = 0 with no foreign key declared; or a row is left over.
Inconsistent(columns, live) ==
    \/ \E i \in 1..Len(columns) :
        \/ i > Len(live)
        \/ columns[i].name # live[i].name
        \/ dbDataType2string(columns[i].type) # live[i].type
        \/ i = 1 /\ live[i].pk = 0 /\ columns[i].foreignKey = ""
    \/ Len(live) # Len(columns)

\* DbService::RecreateTable on an opened file: sqlite3_exec of the DROP and
\* CREATE, whose result is not looked at.  A refused statement changes
\* nothing.
RecreateTable(S, d, t, execRc) ==
    IF execRc = "SQLITE_OK"
    THEN [S EXCEPT !.tables[d][t] = SchemaCols(t), !.rows[d][t] = <<>>]
    ELSE S

RecreateLog(t, execRc) ==
    Opened \o <<Call("exec", RecreateSql(t), execRc), Call("close", "", "SQLITE_OK")>>

\* DbService::CheckDbSchema(Retrievable&) of an instance connected to d.
CheckDbSchema(S, d, t, canOpen, execRc) ==
    LET look == Opened \o Prepared(TableInfoSql(t)) \o FinalizeClose(WithStatement(NewConn))
        bad  == Inconsistent(GetSchema(t), S.tables[d][t])
        T    == IF bad THEN RecreateTable(S, d, t, execRc) ELSE S
    IN  IF t \in S.initializedTables THEN [S |-> S, log |-> <<>>, how |-> "skipped"]
        ELSE IF ~canOpen THEN [S |-> S, log |-> OpenFailed, how |-> "error"]
        ELSE [S   |-> [T EXCEPT !.initializedTables = @ \cup {t}],
              log |-> look \o (IF bad THEN RecreateLog(t, execRc) ELSE <<>>),
              how |-> IF bad THEN "recreated" ELSE "checked"]

\* The tables of file d a statement naming every column of the schema can
\* be prepared on.
Usable(S, d) ==
    {t \in Tables :
        \A i \in 1..Len(GetSchema(t)) :
            \E j \in 1..Len(S.tables[d][t]) :
                S.tables[d][t][j].name = GetSchema(t)[i].name}

\* The statements of the operations are modelled on tables whose columns
\* have the types and the key of the schema.
StatementModelled(S, d, t) ==
    \A i \in 1..Len(S.tables[d][t]) :
        i <= Len(GetSchema(t)) =>
            /\ S.tables[d][t][i].type = SchemaCols(t)[i].type
            /\ S.tables[d][t][i].pk = SchemaCols(t)[i].pk

\* DbService::SaveEntity compiled with DB_INIT: CheckDbSchema, then the
\* operation itself on the file as CheckDbSchema left it.
DoSaveEntityInit(S, inst, e, canOpen, execRc) ==
    LET d == Connection[inst]
        t == e.tableName
        C == CheckDbSchema(S, d, t, canOpen, execRc)
        r == DoSaveEntity(C.S.rows[d], Usable(C.S, d), <<>>, e, canOpen)
    IN  IF C.how = "error"
        THEN [S |-> S, ent |-> e, outcome |-> "error", log |-> C.log]
        ELSE [S |-> [C.S EXCEPT !.rows[d] = r.db,
                                !.caches[inst] = PrepareInsertSql(@, t),
                                !.touched = IF canOpen THEN @ \cup {<<inst, t>>} ELSE @],
              ent |-> r.ent, outcome |-> r.outcome, log |-> C.log \o r.log]

\* The records saved under SpecInit.
InitRecords == {HostRecord(0, "srv", NullPtr, 42), ServiceRecord(0, 1, "web", 80)}

\* The files at the start: db1 with any table in place of Hosts, db2 with
\* Hosts as the schema has it or missing.
InitFiles ==
    {[db1 |-> [Hosts |-> Layout("Hosts", h), Services |-> Layout("Services", s)],
      db2 |-> [Hosts |-> Layout("Hosts", g), Services |-> <<>>]] :
        h \in LayoutKinds, s \in {"match", "missing"}, g \in {"match", "missing"}}

InitInit ==
    /\ store = EmptyStore
    /\ present = Tables
    /\ conns = <<>>
    /\ sqlInsertCache = NoBinds
    /\ sqlSelectCache = NoBinds
    /\ sqlUpdateCache = NoBinds
    /\ op = "none"
    /\ arg = <<>>
    /\ ent = <<>>
    /\ outcome = "ok"
    /\ result = <<>>
    /\ pre = EmptyStore
    /\ log = <<>>
    /\ \E F \in InitFiles :
        objs = [initializedTables |-> {},
                tables  |-> F,
                rows    |-> [d \in Files |->
                               [t \in Tables |-> IF F[d][t] = <<>> THEN <<>>
                                                 ELSE OneRowStore[t]]],
                caches  |-> [i \in Instances |-> NoBinds],
                touched |-> {}]
    /\ before = objs

\* SaveEntity of one of the instances.  A refused recreation is tried where
\* a recreation takes place.
SaveEntityInit ==
    \E inst \in Instances, e \in InitRecords, canOpen \in BOOLEAN,
       execRc \in {"SQLITE_OK", "SQLITE_BUSY"} :
        LET r == DoSaveEntityInit(objs, inst, e, canOpen, execRc)
        IN  /\ op = "none"
            /\ execRc = "SQLITE_OK" \/ Call("exec", RecreateSql(e.tableName), execRc) \in Range(r.log)
            /\ StatementModelled(r.S, Connection[inst], e.tableName)
            /\ KeysBounded(r.S.rows[Connection[inst]])
            /\ op' = "SaveEntity"
            /\ arg' = [instance |-> inst, entity |-> e]
            /\ ent' = r.ent
            /\ outcome' = r.outcome
            /\ log' = r.log
            /\ objs' = r.S
            /\ before' = objs
            /\ UNCHANGED <<store, present, conns, sqlInsertCache, sqlSelectCache,
                           sqlUpdateCache, result, pre>>

NextInit ==
    \/ SaveEntityInit
    \/ NextCall

SpecInit == InitInit /\ [][NextInit]_vars

---------------------------------------------------------------------------
(* The synthesis of the statement texts, for any schema.  A text is kept   *)
(* as the sequence of the pieces the code streams into it.                 *)

\* The longest schema the texts are synthesized for.
MaxCols == 4

\* The schemas: those of the two record classes, and every list of two to
\* MaxCols columns with names of their own.
Schemas ==
    {HostSchema, ServiceSchema} \cup
    UNION {{[k \in 1..n |-> [name |-> f[k], type |-> "DB_INTEGER", size |-> 8,
                             foreignKey |-> ""]] :
               f \in {g \in [1..n -> {"id", "a", "b", "c"}] :
                         \A i, j \in 1..n : i # j => g[i] # g[j]}} :
           n \in 2..MaxCols}

\* Mutant of ListFrom: the separator follows every column, the last included.
RECURSIVE ListFromTrailing(_, _, _)
ListFromTrailing(cols, k, mark) ==
    IF k > Len(cols) THEN <<>>
    ELSE <<mark \o cols[k].name, ", ">> \o ListFromTrailing(cols, k + 1, mark)

\* The loop of PrepareInsertSql from column k on, for one of its two
\* streams: the column's name after `mark`, and ", " unless it is the last.
RECURSIVE ListFrom(_, _, _)
ListFrom(cols, k, mark) ==
    IF k > Len(cols) THEN <<>>
    ELSE <<mark \o cols[k].name>> \o
         (IF k < Len(cols) THEN <<", ">> ELSE <<>>) \o ListFrom(cols, k + 1, mark)

\* The loop of PrepareUpdateSql from column k on (it starts at the column
\* after the zeroth).
RECURSIVE SetFrom(_, _)
SetFrom(cols, k) ==
    IF k > Len(cols) THEN <<>>
    ELSE <<cols[k].name, " = :", cols[k].name>> \o
         (IF k < Len(cols) THEN <<", ">> ELSE <<>>) \o SetFrom(cols, k + 1)

\* The text DbService::PrepareInsertSql makes on a cache miss.
InsertTokens(t, cols) ==
    <<"INSERT INTO ", t, " ( ">> \o ListFrom(cols, 1, "") \o
    <<" ) VALUES ( ">> \o ListFrom(cols, 1, ":") \o <<" )">>

\* The text DbService::PrepareUpdateSql makes on a cache miss.
UpdateTokens(t, cols) ==
    <<"UPDATE ", t, " SET ">> \o SetFrom(cols, 2) \o
    <<" WHERE ", cols[1].name, " = :", cols[1].name>>

\* The pieces streamed one after the other.
RECURSIVE Glue(_)
Glue(pieces) ==
    IF pieces = <<>> THEN "" ELSE Head(pieces) \o Glue(Tail(pieces))

\* A record class with one of the schemas, for which no text is cached yet.
InitSql ==
    /\ store = EmptyStore
    /\ present = Tables
    /\ conns = <<>>
    /\ sqlInsertCache = NoBinds
    /\ sqlSelectCache = NoBinds
    /\ sqlUpdateCache = NoBinds
    /\ op = "none"
    /\ \E cols \in Schemas :
          arg = [tableName |-> IF cols = ServiceSchema THEN "Services" ELSE "Hosts",
                 schema |-> cols]
    /\ ent = <<>>
    /\ outcome = "ok"
    /\ result = <<>>
    /\ pre = EmptyStore
    /\ log = <<>>
    /\ objs = <<>>
    /\ before = <<>>

\* DbService::PrepareInsertSql on a cache miss.
SynthesizeInsert ==
    /\ op = "none"
    /\ op' = "PrepareInsertSql"
    /\ result' = InsertTokens(arg.tableName, arg.schema)
    /\ sqlInsertCache' = CachePut(sqlInsertCache, arg.tableName, Glue(result'))
    /\ UNCHANGED <<store, present, conns, sqlSelectCache, sqlUpdateCache, arg, ent,
                   outcome, pre, log, objs, before>>

\* DbService::PrepareUpdateSql on a cache miss.
SynthesizeUpdate ==
    /\ op = "none"
    /\ op' = "PrepareUpdateSql"
    /\ result' = UpdateTokens(arg.tableName, arg.schema)
    /\ sqlUpdateCache' = CachePut(sqlUpdateCache, arg.tableName, Glue(result'))
    /\ UNCHANGED <<store, present, conns, sqlInsertCache, sqlSelectCache, arg, ent,
                   outcome, pre, log, objs, before>>

NextSql ==
    \/ SynthesizeInsert
    \/ SynthesizeUpdate

SpecSql == InitSql /\ [][NextSql]_vars

---------------------------------------------------------------------------
(* What the claims speak of.                                               *)

\* The key field of a record.
KeyOf(e) == e.f[KeyName(e.tableName)]

\* Some sqlite3_step of the logged call returned an error code.
StepFailed(lg) ==
    \E k \in DOMAIN lg :
        lg[k].call = "step" /\ lg[k].rc \notin {"SQLITE_DONE", "SQLITE_ROW"}

\* The number of calls of `c` in a log.
Count(lg, c) == Cardinality({k \in DOMAIN lg : lg[k].call = c})

\* The rows of table t of db whose column col holds another integer than n.
RowsButKey(db, t, col, n) == SelectSeq(db[t], LAMBDA r : r.c[col].i # n)

\* Some foreign-key field of e holds a key no row of the parent table has.
DanglingFk(db, e) ==
    \E k \in DOMAIN GetSchema(e.tableName) :
        LET col == GetSchema(e.tableName)[k]
        IN  /\ col.foreignKey # ""
            /\ \A j \in DOMAIN db[col.foreignKey] :
                  db[col.foreignKey][j].c[KeyName(col.foreignKey)].i # e.f[col.name]

\* A row of the Services table, written out as a Service object.
ServiceOfRow(r) ==
    ServiceRecord(r.c.service_id.i, r.c.host_id.i, r.c.name.s, r.c.port.i)

SingleOps ==
    {"SaveEntity", "UpdateEntity", "DeleteEntity", "RetrieveEntity", "RetrieveEntities"}

---------------------------------------------------------------------------
(* The claims.                                                             *)

\* C1: when the step of some record of a SaveEntities batch fails, the call
\* raises an error and the store is as it was before the call: no row of
\* any record of the batch is in it, the rows stepped before the failing
\* one included.
C1_SaveEntitiesAllOrNothing ==
    (op = "SaveEntities" /\ StepFailed(log)) =>
        (outcome = "error" /\ store = pre)

\* A batch of two records of one table with the same explicit key: the
\* first was stepped, the second failed.
C1_Witness ==
    /\ op = "SaveEntities"
    /\ Len(arg) = 2
    /\ arg[1].tableName = arg[2].tableName
    /\ KeyOf(arg[1]) = KeyOf(arg[2])
    /\ KeyOf(arg[1]) # 0
    /\ \E k \in DOMAIN log : log[k].call = "step" /\ log[k].rc = "SQLITE_DONE"
    /\ StepFailed(log)
    /\ outcome = "error"

\* C2: a SaveEntity that returns, on a record whose integer key field was
\* 0, has added exactly one row, whose key is the non-zero key now in the
\* record's key field, and every row that was in the store is unchanged.
C2_SaveAssignsKey ==
    (op = "SaveEntity" /\ outcome = "ok" /\ KeyOf(arg) = 0) =>
        LET t == arg.tableName
        IN  /\ KeyOf(ent) # 0
            /\ Len(store[t]) = Len(pre[t]) + 1
            /\ \E k \in DOMAIN store[t] : store[t][k].c[KeyName(t)].i = KeyOf(ent)
            /\ RowsButKey(store, t, KeyName(t), KeyOf(ent)) = pre[t]
            /\ \A u \in Tables \ {t} : store[u] = pre[u]

\* A record with key 0 was saved into a table that already held a row.
C2_Witness ==
    /\ op = "SaveEntity"
    /\ outcome = "ok"
    /\ KeyOf(arg) = 0
    /\ pre[arg.tableName] # <<>>

\* C3: after a SaveEntity that returns, RetrieveEntity on a fresh instance
\* with the record's key leaves the fresh instance's fields equal to the
\* record's.
C3_RoundTrip ==
    (op = "SaveEntity" /\ outcome = "ok") =>
        DoRetrieveEntity(store, present, conns,
                         Fresh(ent.tableName, KeyOf(ent)), TRUE, FALSE).ent.f = ent.f

\* C4: SaveEntity on a record with a foreign-key field that names no row of
\* the parent table raises an error and leaves the store as it was.
C4_DanglingForeignKey ==
    (op = "SaveEntity" /\ DanglingFk(pre, arg)) =>
        (outcome = "error" /\ store = pre)

\* A save with an unused key that the store refused at the step.
C4_Witness ==
    /\ op = "SaveEntity"
    /\ DanglingFk(pre, arg)
    /\ KeyOf(arg) = 0
    /\ \E k \in DOMAIN log : log[k].call = "step" /\ log[k].rc = "SQLITE_CONSTRAINT"

\* C5: UpdateEntity(r) leaves the number of rows of r's table and every row
\* whose key is not r's key as they were, and leaves the other tables as
\* they were.
C5_UpdateOnlyKeyRow ==
    (op = "UpdateEntity") =>
        LET t == arg.tableName
        IN  /\ Len(store[t]) = Len(pre[t])
            /\ \A k \in DOMAIN pre[t] :
                  pre[t][k].c[KeyName(t)].i # KeyOf(arg) => store[t][k] = pre[t][k]
            /\ \A u \in Tables \ {t} : store[u] = pre[u]

\* An update changed r's row while another row already held r's non-key
\* content.
C5_Witness ==
    /\ op = "UpdateEntity"
    /\ outcome = "ok"
    /\ store # pre
    /\ \E k \in DOMAIN store[arg.tableName] :
          LET row == store[arg.tableName][k]
          IN  /\ row.c[KeyName(arg.tableName)].i # KeyOf(arg)
              /\ \A n \in ColNames(arg.tableName) \ {KeyName(arg.tableName)} :
                    row.c[n] = CellOf(CHOOSE v \in Range(GetValues(arg)) : v.name = n)

\* C6: DeleteEntity(r) binds the key parameter only, and the store after it
\* is the store before it, or the store before it without the row of r's
\* table whose key is r's key.
C6_DeleteOnlyKeyRow ==
    (op = "DeleteEntity") =>
        LET t == arg.tableName
        IN  /\ \A k \in DOMAIN log :
                  log[k].call = "bind" => log[k].arg = ":" \o KeyName(t)
            /\ Count(log, "bind") <= 1
            /\ store[t] \in {pre[t], RowsButKey(pre, t, KeyName(t), KeyOf(arg))}
            /\ \A u \in Tables \ {t} : store[u] = pre[u]

\* A delete removed one row of a table and left another row in it.
C6_Witness ==
    /\ op = "DeleteEntity"
    /\ outcome = "ok"
    /\ Len(store[arg.tableName]) = Len(pre[arg.tableName]) - 1
    /\ store[arg.tableName] # <<>>

\* C7: RetrieveEntity on a record whose key matches no row of its table
\* raises an error and leaves the record as it was.
C7_NotFoundRaises ==
    (op = "RetrieveEntity" /\ arg.tableName \in present
        /\ RowsButKey(pre, arg.tableName, KeyName(arg.tableName), KeyOf(arg))
               = pre[arg.tableName]) =>
        (outcome = "error" /\ ent = arg)

\* C8: RetrieveChildEntities<Service>(host) that returns gives the rows of
\* Services whose host_id equals the host's key, in the store's row order.
C8_ChildrenOfParent ==
    (op = "RetrieveChildEntities" /\ outcome = "ok"
        /\ arg.tableName = "Services" /\ arg.parent.tableName = "Hosts") =>
        LET rows == SelectSeq(pre["Services"],
                              LAMBDA r : r.c.host_id.i = KeyOf(arg.parent))
        IN  result = [k \in DOMAIN rows |-> ServiceOfRow(rows[k])]

\* The children of a host were retrieved, and there were two of them.
C8_Witness ==
    /\ op = "RetrieveChildEntities"
    /\ outcome = "ok"
    /\ arg.tableName = "Services"
    /\ arg.parent.tableName = "Hosts"
    /\ Len(result) = 2

\* C9: when no column of T names the parent's table as its foreign table,
\* RetrieveChildEntities<T>(parent) returns nothing and makes no call of the
\* store: no open, no prepare.
C9_NoForeignColumnNoQuery ==
    (op = "RetrieveChildEntities"
        /\ \A k \in DOMAIN GetSchema(arg.tableName) :
              GetSchema(arg.tableName)[k].foreignKey # arg.parent.tableName) =>
        (outcome = "ok" /\ result = <<>> /\ log = <<>> /\ conns = <<>>)

\* The "children" of a Service among the Hosts were asked for while the
\* Hosts table held a row.
C9_Witness ==
    /\ op = "RetrieveChildEntities"
    /\ arg.tableName = "Hosts"
    /\ arg.parent.tableName = "Services"
    /\ store["Hosts"] # <<>>

\* C10: a single-entity operation that returns or raises has opened one
\* connection and closed it with its last store call, and no connection is
\* open afterwards.
C10_OneConnectionClosed ==
    (op \in SingleOps /\ outcome \in {"ok", "error"}) =>
        /\ Count(log, "open") = 1
        /\ log[1].call = "open"
        /\ Count(log, "close") = 1
        /\ log[Len(log)] = Call("close", "", "SQLITE_OK")
        /\ conns = <<>>

\* A single-entity operation raised an error from a failed step.
C10_Witness ==
    /\ op \in SingleOps
    /\ outcome = "error"
    /\ StepFailed(log)

\* The batch operations.
BatchOps == {"SaveEntities", "UpdateEntities", "DeleteEntities"}

\* The places of a log where `c` was called with argument a.
Places(lg, c, a) == {k \in DOMAIN lg : lg[k].call = c /\ lg[k].arg = a}

\* The places of a log where `c` was called.
PlacesOf(lg, c) == {k \in DOMAIN lg : lg[k].call = c}

\* C11: a batch operation on a non-empty list opens one connection; once it
\* is open it issues one BEGIN TRANSACTION, before every step; when every
\* step succeeds it issues one END TRANSACTION, after the step of each of
\* the records and before the close; when the call raises it issues none.
C11_OneTransactionPerBatch ==
    (op \in BatchOps /\ arg # <<>>) =>
        /\ Count(log, "open") = 1
        /\ log[1].call = "open"
        /\ log[1].rc = "SQLITE_OK" =>
            /\ Cardinality(Places(log, "exec", "BEGIN TRANSACTION")) = 1
            /\ \A b \in Places(log, "exec", "BEGIN TRANSACTION") :
                  \A s \in PlacesOf(log, "step") \cup PlacesOf(log, "prepare") : b < s
            /\ outcome = "error" => Places(log, "exec", "END TRANSACTION") = {}
            /\ outcome = "ok" =>
                /\ Cardinality(PlacesOf(log, "step")) = Len(arg)
                /\ Cardinality(Places(log, "exec", "END TRANSACTION")) = 1
                /\ \A e \in Places(log, "exec", "END TRANSACTION") :
                      /\ \A s \in PlacesOf(log, "step") : s < e
                      /\ \A k \in PlacesOf(log, "close") : e < k
                /\ PlacesOf(log, "close") # {}

\* A batch of two records of two tables went through.
C11_Witness ==
    /\ op \in BatchOps
    /\ Len(arg) = 2
    /\ arg[1].tableName # arg[2].tableName
    /\ outcome = "ok"
    /\ Places(log, "exec", "END TRANSACTION") # {}

\* The statement kind of a batch operation.
KindOf(name) ==
    IF name = "SaveEntities" THEN "INSERT"
    ELSE IF name = "UpdateEntities" THEN "UPDATE"
    ELSE "DELETE"

\* The prepare, bind and step calls of a log, without their return codes.
Marks(lg) ==
    LET m == SelectSeq(lg, LAMBDA x : x.call \in {"prepare", "bind", "step"})
    IN  [k \in DOMAIN m |-> [call |-> m[k].call, arg |-> m[k].arg]]

RECURSIVE InListOrder(_, _, _)
\* The prepare, bind and step calls of a batch that goes through the
\* records k.. of es in the order of the list, a statement being prepared for
\* the first record and for each record whose table is not that of the
\* record before it.
InListOrder(kind, es, k) ==
    IF k > Len(es) THEN <<>>
    ELSE (IF k = 1 \/ es[k].tableName # es[k - 1].tableName
          THEN <<[call |-> "prepare", arg |-> BatchSql(kind, es[k].tableName)]>>
          ELSE <<>>) \o
         [j \in DOMAIN BatchBound(kind, GetValues(es[k])) |->
            [call |-> "bind", arg |-> ":" \o BatchBound(kind, GetValues(es[k]))[j].name]] \o
         <<[call |-> "step", arg |-> ""]>> \o
         InListOrder(kind, es, k + 1)

RECURSIVE StepEach(_, _, _, _, _)
\* The records k.. of es stepped one after the other, each on a statement of
\* its own with no binding left from another record.
StepEach(kind, db, tabs, es, k) ==
    IF k > Len(es) THEN [ok |-> TRUE, db |-> db]
    ELSE IF es[k].tableName \notin tabs THEN [ok |-> FALSE, db |-> db]
    ELSE IF BatchStep(kind, db, es[k].tableName,
                      Bind(NoBinds, BatchBound(kind, GetValues(es[k]))), TRUE).rc
                \notin {"SQLITE_DONE", "SQLITE_ROW"}
    THEN [ok |-> FALSE, db |-> db]
    ELSE StepEach(kind,
                  BatchStep(kind, db, es[k].tableName,
                            Bind(NoBinds, BatchBound(kind, GetValues(es[k]))), TRUE).db,
                  tabs, es, k + 1)

\* C12: the prepare, bind and step calls of a batch operation are those of
\* its list taken in order, with a prepare for the first record and for each
\* record whose table differs from that of the record before it (all of them
\* when the call returns, a first part of them when it raises); and the call
\* returns, with the store it leaves, exactly as stepping the records one by
\* one on statements of their own does, wherever the records of one table
\* stand in the list.
C12_BatchInListOrder ==
    (op \in BatchOps /\ arg # <<>> /\ log[1].rc = "SQLITE_OK") =>
        /\ IF outcome = "ok"
           THEN Marks(log) = InListOrder(KindOf(op), arg, 1)
           ELSE /\ Len(Marks(log)) <= Len(InListOrder(KindOf(op), arg, 1))
                /\ Marks(log) = SubSeq(InListOrder(KindOf(op), arg, 1), 1, Len(Marks(log)))
        /\ outcome = "ok" =>
              /\ StepEach(KindOf(op), pre, present, arg, 1).ok
              /\ store = StepEach(KindOf(op), pre, present, arg, 1).db
        /\ (StepEach(KindOf(op), pre, present, arg, 1).ok
                /\ \A k \in DOMAIN log : log[k].rc # "SQLITE_BUSY") => outcome = "ok"

\* A batch Host, Service, Host went through: three statements were prepared.
C12_Witness ==
    /\ op \in BatchOps
    /\ Len(arg) = 3
    /\ arg[1].tableName = "Hosts"
    /\ arg[2].tableName = "Services"
    /\ arg[3].tableName = "Hosts"
    /\ outcome = "ok"
    /\ Count(log, "prepare") = 3
    /\ store # pre

\* Every entry of the cache `old` is in the cache `new`, with the same text,
\* and `new` has at most the entry of table t besides.
CacheKept(old, new, t) ==
    /\ \A x \in DOMAIN old : x \in DOMAIN new /\ new[x] = old[x]
    /\ DOMAIN new \subseteq DOMAIN old \cup {t}

\* The texts the last operation prepared.
PrepareTexts == {log[k].arg : k \in PlacesOf(log, "prepare")}

\* The text the last operation prepared is the entry its table has in the
\* cache of its statement kind (followed by the WHERE clause of a SELECT).
CacheUsed ==
    /\ op = "SaveEntity" =>
          PrepareTexts \subseteq {sqlInsertCache[arg.tableName]}
    /\ op = "UpdateEntity" =>
          PrepareTexts \subseteq {sqlUpdateCache[arg.tableName]}
    /\ op = "RetrieveEntity" =>
          PrepareTexts \subseteq
              {sqlSelectCache[arg.tableName] \o " WHERE " \o KeyName(arg.tableName)
                  \o " = :" \o KeyName(arg.tableName)}
    /\ op = "RetrieveEntities" =>
          PrepareTexts \subseteq {sqlSelectCache[arg.tableName] \o " WHERE " \o arg.pred}

\* C13: an operation leaves every entry of the three statement caches in
\* place with its text, adds at most the entry of its own table, and prepares
\* the text its table has in the cache: one entry per table, made on first
\* use, the same text ever after.
C13_CachesOnlyGrow ==
    [][op' # "none" =>
          /\ CacheKept(sqlInsertCache, sqlInsertCache', arg'.tableName)
          /\ CacheKept(sqlSelectCache, sqlSelectCache', arg'.tableName)
          /\ CacheKept(sqlUpdateCache, sqlUpdateCache', arg'.tableName)
          /\ CacheUsed']_vars

\* All three caches hold both tables, and a record was saved into a table
\* that held a row: its INSERT text came from the cache.
C13_Witness ==
    /\ DOMAIN sqlInsertCache = Tables
    /\ DOMAIN sqlSelectCache = Tables
    /\ DOMAIN sqlUpdateCache = Tables
    /\ op = "SaveEntity"
    /\ outcome = "ok"
    /\ pre[arg.tableName] # <<>>


---------------------------------------------------------------------------
(* Claims on record objects.                                               *)

\* The calls that go through the registry accessor.
AccessorOps == {"GetValue", "GetValues", "GetStrValue", "GetSchema", "SetValue", "SetStrValue"}

\* The object before and after the call just made on it.
Callee == objs[arg.obj]
CalleeBefore == before[arg.obj]

CopyOps == {"CopyConstruct", "MoveConstruct", "CopyAssign", "MoveAssign"}

\* The registry of an object: name map, descriptor list, schema.
Registry(o) == <<o.map, o.vec, o.schema>>

\* The member the descriptor registered under a name points at.
MemberOf(o, name) == o.map[name].field.member

\* C15: every descriptor of an object points at a member of that object,
\* also after the object was copy-constructed, move-constructed or assigned
\* from another whose registry was built; the copy leaves the source's
\* registry as it was; a call on one object leaves the other object as it
\* was; GetValue returns the callee's own member and SetValue writes it.
C15_CopyOwnsItsFields ==
    /\ \A id \in DOMAIN objs : \A n \in DOMAIN objs[id].map :
            objs[id].map[n].field.obj = id
    /\ op \in CopyOps =>
            /\ Registry(objs[arg.from]) = Registry(before[arg.from])
            /\ Callee.f = before[arg.from].f
    /\ op \in AccessorOps =>
            \A id \in DOMAIN objs \ {arg.obj} : objs[id] = before[id]
    /\ op = "GetValue" /\ outcome = "ok" =>
            result = DbValue(Callee.map[arg.name], Callee.f[MemberOf(Callee, arg.name)])
    /\ op = "SetValue" /\ outcome = "ok" =>
            Callee.f[MemberOf(Callee, arg.name)] =
                (IF Callee.map[arg.name].type = "DB_TEXT" THEN <<"a">> ELSE 7)

\* SetValue on an object that holds the members of another object whose
\* registry was built, its own registry not yet rebuilt: the write lands in
\* the callee and the two objects differ afterwards.
C15_Witness ==
    /\ op = "SetValue"
    /\ outcome = "ok"
    /\ CalleeBefore.schema = <<>>
    /\ \E src \in DOMAIN objs \ {arg.obj} :
            /\ before[src].schema # <<>>
            /\ before[src].f = CalleeBefore.f
            /\ before[src].f # DefaultFields(before[src].cls)
            /\ objs[src].f = before[src].f
            /\ Callee.f # objs[src].f


\* C16: the call that runs Initialize() on an object whose class registers
\* the name "id" twice ends with an error raised by the second registration,
\* and the name map, the descriptor list and the schema hold the one entry
\* the first registration made.
C16_DuplicateRejected ==
    (op \in AccessorOps /\ Callee.cls = "Twice" /\ CalleeBefore.schema = <<>>) =>
        /\ outcome = "error"
        /\ DOMAIN Callee.map = {"id"}
        /\ Len(Callee.vec) = 1
        /\ Len(Callee.schema) = 1


\* The calls that look a field up by name.
NamedOps == {"GetValue", "GetStrValue", "SetValue", "SetStrValue"}

\* C17: GetValue, GetStrValue, SetValue and SetStrValue with a name the
\* object's registry does not hold raise an error, and every member of every
\* object is what it was before the call.
C17_UnknownNameRaises ==
    (op \in NamedOps /\ outcome # "abort" /\ arg.name \notin DOMAIN Callee.map) =>
        /\ outcome = "error"
        /\ result = "runtime_error"
        /\ \A id \in DOMAIN objs : objs[id].f = before[id].f

\* SetValue with an unregistered name on an object whose registry is built
\* and whose members were set before.
C17_Witness ==
    /\ op = "SetValue"
    /\ arg.name = "nope"
    /\ outcome = "error"
    /\ Callee.schema # <<>>
    /\ Callee.f # DefaultFields(Callee.cls)
    /\ Callee.f = CalleeBefore.f


\* A text that is a decimal integer and nothing else: an optional sign and
\* one or more digits.
ValidDecimal(t) ==
    /\ Unsigned(t) # <<>>
    /\ \A k \in DOMAIN Unsigned(t) : IsDigit(Unsigned(t)[k])

\* C18: SetStrValue on an integer field with a text that is not entirely a
\* decimal integer ends in a parsing error and leaves the field as it was.
C18_StrictParse ==
    (/\ op = "SetStrValue"
     /\ arg.name \in DOMAIN Callee.map
     /\ Callee.map[arg.name].type = "DB_INTEGER"
     /\ ~ValidDecimal(arg.text)) =>
        /\ outcome = "error"
        /\ result = "invalid_argument"
        /\ Callee.f = CalleeBefore.f

\* C19: GetStrValue after SetStrValue(name, t) returns, for an integer field
\* of any width and a decimal text t, a text that parses to the integer t
\* parses to, and for a text field t itself.
C19_StrRoundTrip ==
    (/\ op = "GetStrValue"
     /\ "text" \in DOMAIN arg
     /\ Callee.map[arg.name].type = "DB_INTEGER" => ValidDecimal(arg.text)) =>
        /\ outcome = "ok"
        /\ IF Callee.map[arg.name].type = "DB_INTEGER"
           THEN Stol(result).ok /\ Stol(result).val = Stol(arg.text).val
           ELSE result = arg.text


\* The bind stage of the call was reached: its statement was prepared.
StatementPrepared(lg) ==
    \E k \in DOMAIN lg : lg[k].call = "prepare" /\ lg[k].rc = "SQLITE_OK"

\* The key parameter of the call's statement was left unbound.
KeyUnbound == Places(log, "bind", ":" \o KeyName(arg.tableName)) = {}

\* C20: a SaveEntity that prepared its statement leaves the key parameter
\* unbound exactly when the integer key field holds 0 and binds every other
\* parameter once; when it returns, the key field was overwritten exactly when
\* the key parameter was unbound, and then holds the key of the row added;
\* when it raises, the record is as it was.  A text key, empty or not, is
\* always bound and never written back.
C20_KeyBoundUnlessZero ==
    /\ (op = "SaveEntity" /\ StatementPrepared(log)) =>
            /\ KeyUnbound <=> KeyOf(arg) = 0
            /\ \A n \in ColNames(arg.tableName) \ {KeyName(arg.tableName)} :
                    Cardinality(Places(log, "bind", ":" \o n)) = 1
            /\ Cardinality(Places(log, "bind", ":" \o KeyName(arg.tableName))) <= 1
            /\ outcome = "ok" =>
                    /\ KeyOf(ent) # KeyOf(arg) <=> KeyUnbound
                    /\ \E k \in DOMAIN store[arg.tableName] :
                            /\ store[arg.tableName][k].c[KeyName(arg.tableName)].i = KeyOf(ent)
                            /\ \A j \in DOMAIN pre[arg.tableName] :
                                    pre[arg.tableName][j].c[KeyName(arg.tableName)].i # KeyOf(ent)
                    /\ [ent EXCEPT !.f[KeyName(arg.tableName)] = KeyOf(arg)] = arg
            /\ outcome # "ok" => ent = arg
    /\ \A k \in {"", "k"} :
            /\ BindStmtParameters(StringKeyValues(k), FALSE) = StringKeyValues(k)
            /\ KeyWriteBack(NewEntity("Hosts"), StringKeyValues(k), 1) = NewEntity("Hosts")

\* A record with a non-zero key was saved beside a row already stored: its
\* key was bound and its key field kept.
C20_Witness ==
    /\ op = "SaveEntity"
    /\ outcome = "ok"
    /\ KeyOf(arg) # 0
    /\ ~KeyUnbound
    /\ KeyOf(ent) = KeyOf(arg)
    /\ pre[arg.tableName] # <<>>


---------------------------------------------------------------------------
(* Claims on failures, values and the store protocol.                      *)

\* The single-entity operations that write.
WritingOps == {"SaveEntity", "UpdateEntity", "DeleteEntity"}

\* C21: when SaveEntity, UpdateEntity or DeleteEntity raises, every field of
\* the record is what it was when the call was made, the key included, and
\* every table of the store holds the rows it held before the call.
C21_FailedCallChangesNothing ==
    (op \in WritingOps /\ outcome # "ok") =>
        /\ ent = arg
        /\ store = pre

\* A call failed at its step on a store that holds rows: a save of a
\* record with key 0, or a delete of a row that is referenced.
C21_Witness ==
    /\ op \in {"SaveEntity", "DeleteEntity"}
    /\ outcome = "error"
    /\ StepFailed(log)
    /\ op = "SaveEntity" => KeyOf(arg) = 0
    /\ pre[arg.tableName] # <<>>
    /\ \E k \in DOMAIN log : log[k].call = "step" /\ log[k].rc = "SQLITE_CONSTRAINT"


\* The little-endian 8-byte two's-complement integer whose value is that of
\* a field: the field's bytes, continued with 0xFF when the field is signed
\* and negative and with 0 otherwise.
Int64Of(fld) ==
    [k \in 1..8 |->
        IF k <= fld.size THEN fld.bytes[k]
        ELSE IF fld.signed /\ fld.bytes[fld.size] >= 128 THEN 255 ELSE 0]

\* The number a field of at most 2 bytes holds.
NumberOf(fld) ==
    LET bits == IF fld.size = 1 THEN fld.bytes[1] ELSE fld.bytes[1] + 256 * fld.bytes[2]
    IN  IF fld.signed /\ fld.bytes[fld.size] >= 128 THEN bits - Pow2(8 * fld.size) ELSE bits

\* The number 8 little-endian bytes hold when it lies within -65536..65535.
SmallInt64(b) ==
    IF \A k \in 3..8 : b[k] = 255 THEN b[1] + 256 * b[2] - 65536
    ELSE b[1] + 256 * b[2]

\* C22: the 8-byte integer encoded from an unsigned integer field of at most
\* 32 bits is the integer the field holds, also when the field's highest bit
\* is set.
C22_UnsignedKept ==
    (op = "DbValue" /\ ~arg.signed) =>
        /\ result = Int64Of(arg)
        /\ arg.size <= 2 => SmallInt64(result) = NumberOf(arg)

\* C23: the 8-byte integer encoded from a signed integer field of 1, 2, 4 or
\* 8 bytes is the integer the field holds: sign-extended when negative,
\* zero-extended otherwise; for 1 and 2 bytes it is also the number
\* EncodeInteger gives.
C23_SignedKept ==
    (op = "DbValue" /\ arg.signed) =>
        /\ result = Int64Of(arg)
        /\ arg.size <= 2 =>
            /\ SmallInt64(result) = NumberOf(arg)
            /\ SmallInt64(result) =
                    EncodeInteger(NumberOf([arg EXCEPT !.signed = FALSE]), arg.size)

\* A negative 4-byte signed field was encoded.
C23_Witness ==
    /\ op = "DbValue"
    /\ arg.signed
    /\ arg.size = 4
    /\ arg.bytes[4] >= 128
    /\ result[8] = 255


\* The live DbValues whose value points at buffer b.
OwnersOf(S, b) == {x \in DOMAIN S.v : S.v[x].live /\ S.v[x].value = b}

\* The DbValues that are live both in S and in T and are not operands of
\* the operation recorded in arg.
Bystanders(S, T) ==
    {x \in Slots : S.v[x].live /\ T.v[x].live /\ \A n \in DOMAIN arg : arg[n] # x}

\* C24: after any sequence of DbValue constructions, copies, moves,
\* assignments, swaps and destructions every buffer that was not released
\* is the value of exactly one live DbValue, a released buffer was released
\* once and is the value of none; destroying a DbValue releases its buffer
\* and nothing else, nothing at all when its value is its own value_arr;
\* a copy or assignment allocates a buffer of its own and gives the
\* destination the source's text, a move or swap allocates nothing; and the
\* text of a DbValue changes only by an operation on it.
C24_BuffersOwnedOnce ==
    /\ \A b \in DOMAIN objs.heap :
            /\ objs.heap[b].freed <= 1
            /\ Cardinality(OwnersOf(objs, b)) = 1 - objs.heap[b].freed
    /\ ~objs.v[Rhs].live
    /\ \A x \in Bystanders(before, objs) : TextOf(objs, x) = TextOf(before, x)
    /\ op = "Destroy" =>
            /\ before.v[arg.x].value = 0 => objs.heap = before.heap
            /\ \A b \in DOMAIN objs.heap :
                    objs.heap[b].freed = before.heap[b].freed +
                        (IF before.v[arg.x].value = b THEN 1 ELSE 0)
    /\ op \in {"Copy", "Assign"} =>
            /\ TextOf(objs, arg.x) = TextOf(before, arg.y)
            /\ TextOf(objs, arg.y) = TextOf(before, arg.y)
            /\ objs.v[arg.y].value # 0 /\ arg.x # arg.y =>
                    objs.v[arg.x].value # objs.v[arg.y].value
    /\ op \in {"Move", "MoveAssign"} =>
            /\ TextOf(objs, arg.x) = TextOf(before, arg.y)
            /\ TextOf(objs, arg.y) = <<>>
            /\ Len(objs.heap) = Len(before.heap)
    /\ op = "Swap" =>
            /\ TextOf(objs, arg.x) = TextOf(before, arg.y)
            /\ TextOf(objs, arg.y) = TextOf(before, arg.x)
            /\ objs.heap = before.heap

\* The source of a copy that owns a buffer was destroyed and the copy still
\* holds the text in a buffer of its own.
C24_Witness ==
    /\ op = "Destroy"
    /\ before.v[arg.x].value # 0
    /\ \E y \in Slots \ {arg.x} :
            /\ objs.v[y].live
            /\ objs.v[y].value # 0
            /\ TextOf(objs, y) = before.heap[before.v[arg.x].value].text
            /\ objs.heap[objs.v[y].value].freed = 0

\* The call recorded under SpecInit prepared the PRAGMA table_info of its
\* table.
Introspected ==
    \E k \in DOMAIN log :
        log[k].call = "prepare" /\ log[k].arg = TableInfoSql(arg.entity.tableName)

\* The table `live` of the store is missing, has a column whose name or kind
\* differs at the same position, has more or fewer columns, or has a key
\* column that is neither primary nor a declared foreign key.
Differs(live, t) ==
    \/ live = <<>>
    \/ \E i \in 1..Len(live) :
        /\ i <= Len(GetSchema(t))
        /\ \/ live[i].name # GetSchema(t)[i].name
           \/ live[i].type # dbDataType2string(GetSchema(t)[i].type)
    \/ Len(live) # Len(GetSchema(t))
    \/ live # <<>> /\ live[1].pk = 0 /\ GetSchema(t)[1].foreignKey = ""

\* C25: in an operation that introspects the table and whose DROP and
\* CREATE the store accepts, a table that is missing or differs from the
\* schema is dropped and recreated from the schema before the INSERT is
\* prepared (none of its rows is left), and a table that matches is left
\* as it was, rows included.
C25_ReconciledBeforePrepare ==
    (op = "SaveEntity" /\ Introspected
        /\ Call("exec", RecreateSql(arg.entity.tableName), "SQLITE_BUSY") \notin Range(log)) =>
        LET d    == Connection[arg.instance]
            t    == arg.entity.tableName
            live == before.tables[d][t]
            was  == before.rows[d][t]
            now  == objs.rows[d][t]
        IN  IF Differs(live, t)
            THEN /\ \E k \in DOMAIN log :
                      /\ log[k] = Call("exec", RecreateSql(t), "SQLITE_OK")
                      /\ \A j \in DOMAIN log :
                            (log[j].call = "prepare" /\ log[j].arg = InsertSql(t)) => k < j
                 /\ objs.tables[d][t] = SchemaCols(t)
                 /\ Len(now) = IF outcome = "ok" THEN 1 ELSE 0
            ELSE /\ \A k \in DOMAIN log : log[k].call # "exec" \/ log[k].arg # RecreateSql(t)
                 /\ objs.tables[d][t] = live
                 /\ Len(now) >= Len(was)
                 /\ SubSeq(now, 1, Len(was)) = was

\* A table with one column more than the schema, holding a row, was dropped
\* and recreated, and the record was then saved into it.
C25_Witness ==
    /\ op = "SaveEntity" /\ Introspected /\ outcome = "ok"
    /\ Len(before.tables[Connection[arg.instance]][arg.entity.tableName])
         > Len(GetSchema(arg.entity.tableName))
    /\ before.rows[Connection[arg.instance]][arg.entity.tableName] # <<>>
    /\ Call("exec", RecreateSql(arg.entity.tableName), "SQLITE_OK") \in Range(log)

\* C26: the first operation of an instance that reaches the store for a
\* table introspects the table; the later ones of that instance do not.
C26_EveryInstanceIntrospects ==
    (op = "SaveEntity" /\ log # <<>> /\ log[1] = Call("open", "", "SQLITE_OK")) =>
        (Introspected <=> <<arg.instance, arg.entity.tableName>> \notin before.touched)

\* C27: an operation whose DROP and CREATE the store refuses raises, and
\* its table is not recorded as reconciled.
C27_RefusedRecreationRaises ==
    (op = "SaveEntity"
        /\ Call("exec", RecreateSql(arg.entity.tableName), "SQLITE_BUSY") \in Range(log)) =>
        /\ outcome = "error"
        /\ arg.entity.tableName \notin objs.initializedTables

\* The place of a store call in the life of a connection; sqlite3_exec (the
\* pragma) has none.
Stage(c) ==
    CASE c = "open"     -> 1
      [] c = "prepare"  -> 2
      [] c = "bind"     -> 3
      [] c = "step"     -> 4
      [] c = "finalize" -> 5
      [] c = "close"    -> 6
      [] OTHER          -> 0

SeveralRuns(es) == \E k \in 1..(Len(es) - 1) : es[k].tableName # es[k + 1].tableName

\* C29: when a batch operation on a list of more than one run of table
\* names returns or raises, every close of its connection comes after as
\* many finalizes as statements were prepared, and is not refused for a
\* statement still unfinalized.
C29_EveryStatementFinalized ==
    (op \in BatchOps /\ outcome \in {"ok", "error"} /\ SeveralRuns(arg)) =>
        \A k \in PlacesOf(log, "close") :
            /\ Cardinality({j \in 1..k : log[j].call = "prepare" /\ log[j].rc = "SQLITE_OK"})
                 <= Cardinality({j \in 1..k : log[j].call = "finalize"})
            /\ log[k].rc = "SQLITE_OK"

\* C30: when a batch operation returns or raises, no connection is left
\* open (so none holds a transaction or the write lock), and no step of an
\* operation is refused because the store is locked.
C30_BatchLeavesStoreFree ==
    /\ (op \in BatchOps /\ outcome \in {"ok", "error"}) => conns = <<>>
    /\ op # "none" =>
          \A k \in PlacesOf(log, "step") : log[k].rc # "SQLITE_BUSY"

\* C31: in a writing operation, single or batch, the pragma that switches
\* foreign-key enforcement on has been executed on the connection before any
\* statement is stepped, and in a batch operation before BEGIN TRANSACTION,
\* which every batch that opens its connection issues.
C31_ForeignKeysOnBeforeStep ==
    (op \in WritingOps \cup BatchOps) =>
        /\ \A s \in PlacesOf(log, "step") :
              \E p \in 1..(s - 1) : log[p] = PragmaFk
        /\ \A b \in Places(log, "exec", "BEGIN TRANSACTION") :
              \E p \in 1..(b - 1) : log[p] = PragmaFk
        /\ (op \in BatchOps /\ log # <<>> /\ log[1].rc = "SQLITE_OK") =>
              Places(log, "exec", "BEGIN TRANSACTION") # {}

\* A batch began its transaction after the pragma, and the store then
\* refused its Service, whose host_id names no Host.
C31_Witness ==
    /\ op = "SaveEntities"
    /\ Len(arg) = 1
    /\ arg[1].tableName = "Services"
    /\ DanglingFk(pre, arg[1])
    /\ Places(log, "exec", "BEGIN TRANSACTION") # {}
    /\ StepFailed(log)
    /\ outcome = "error"

\* The place in a log of its n-th step.
StepPlace(lg, n) ==
    CHOOSE s \in PlacesOf(lg, "step") :
        Cardinality({j \in PlacesOf(lg, "step") : j <= s}) = n

\* The parameters bound on the statement stepped at place s of a log: those
\* of the binds since the statement was prepared or its bindings were cleared.
BoundAt(lg, s) ==
    {lg[j].arg : j \in {j \in 1..(s - 1) :
                          /\ lg[j].call = "bind"
                          /\ \A i \in (j + 1)..(s - 1) :
                                lg[i].call \notin {"prepare", "clear_bindings"}}}

\* The parameter names SaveEntities binds for record e.
OwnParameters(e) ==
    {":" \o v.name : v \in Range(BindStmtParameters(GetValues(e), FALSE))}

\* C32: every step of SaveEntities is taken with exactly the parameters of
\* its own record bound; and a record with key 0 that comes right after a
\* record of its table with a non-zero key (the list starting with that run)
\* is stepped successfully unless the store is locked or its foreign key
\* names no row, and gets a key that is neither 0 nor the key of the record
\* before it.
C32_OwnBindingsAtEachStep ==
    (op = "SaveEntities") =>
        /\ \A n \in 1..Count(log, "step") :
              BoundAt(log, StepPlace(log, n)) = OwnParameters(arg[n])
        /\ \A k \in 1..(Len(arg) - 1) :
              (/\ \A j \in 1..(k + 1) : arg[j].tableName = arg[1].tableName
               /\ KeyOf(arg[k]) # 0
               /\ KeyOf(arg[k + 1]) = 0
               /\ Count(log, "step") >= k + 1
               /\ \A j \in DOMAIN log : log[j].rc # "SQLITE_BUSY"
               /\ ~DanglingFk(pre, arg[k + 1])) =>
                  /\ log[StepPlace(log, k + 1)].rc = "SQLITE_DONE"
                  /\ KeyOf(ent[k + 1]) \notin {0, KeyOf(arg[k])}

\* SaveEntities saved a record with a key of its own and then one with key 0.
C32_Witness ==
    /\ op = "SaveEntities"
    /\ Len(arg) = 2
    /\ arg[1].tableName = arg[2].tableName
    /\ KeyOf(arg[1]) # 0
    /\ KeyOf(arg[2]) = 0
    /\ outcome = "ok"
    /\ KeyOf(ent[2]) # 0

\* C33: for every schema of two or more columns, the INSERT text is
\* "INSERT INTO t ( " followed by the names of all columns in schema order,
\* ", " between them, then " ) VALUES ( ", the placeholders ":name" of the
\* same columns in the same order, and " )"; the UPDATE text is
\* "UPDATE t SET " followed by "name = :name" for every column but the
\* zeroth, in order, then " WHERE " with the zeroth column alone.  For the
\* two record classes these are the texts the operations prepare.
C33_TextsFollowSchema ==
    LET cols == arg.schema
        n    == Len(cols)
        r    == result
    IN  /\ op = "PrepareInsertSql" =>
            /\ Len(r) = 4 * n + 3
            /\ SubSeq(r, 1, 3) = <<"INSERT INTO ", arg.tableName, " ( ">>
            /\ \A i \in 1..n : r[2 + 2 * i] = cols[i].name
            /\ \A i \in 1..(n - 1) : r[3 + 2 * i] = ", "
            /\ r[3 + 2 * n] = " ) VALUES ( "
            /\ \A i \in 1..n : r[2 + 2 * n + 2 * i] = ":" \o cols[i].name
            /\ \A i \in 1..(n - 1) : r[3 + 2 * n + 2 * i] = ", "
            /\ r[4 * n + 3] = " )"
            /\ cols = GetSchema(arg.tableName) =>
                  /\ Glue(r) = InsertSql(arg.tableName)
                  /\ sqlInsertCache[arg.tableName] = InsertSql(arg.tableName)
        /\ op = "PrepareUpdateSql" =>
            /\ Len(r) = 4 * n + 2
            /\ SubSeq(r, 1, 3) = <<"UPDATE ", arg.tableName, " SET ">>
            /\ \A i \in 2..n :
                  SubSeq(r, 4 * i - 4, 4 * i - 2) = <<cols[i].name, " = :", cols[i].name>>
            /\ \A i \in 2..(n - 1) : r[4 * i - 1] = ", "
            /\ SubSeq(r, 4 * n - 1, 4 * n + 2) =
                  <<" WHERE ", cols[1].name, " = :", cols[1].name>>
            /\ cols = GetSchema(arg.tableName) =>
                  /\ Glue(r) = UpdateSql(arg.tableName)
                  /\ sqlUpdateCache[arg.tableName] = UpdateSql(arg.tableName)

\* The INSERT text of a schema of four columns was synthesized.
C33_Witness ==
    /\ op = "PrepareInsertSql"
    /\ Len(arg.schema) = 4
    /\ arg.schema # GetSchema(arg.tableName)
    /\ Len(result) = 19

\* C34: when SaveEntities raises, the key field of every record of the
\* list holds what it held when the call was made.
C34_FailedBatchKeepsKeys ==
    (op = "SaveEntities" /\ outcome = "error") =>
        \A k \in DOMAIN arg : KeyOf(ent[k]) = KeyOf(arg[k])

\* C35: a batch operation called with an empty list raises an error, has
\* made no store call (no open, no BEGIN TRANSACTION) and has left every
\* table with the rows it held.
C35_EmptyListRaises ==
    (op \in BatchOps /\ arg = <<>>) =>
        /\ outcome = "error"
        /\ log = <<>>
        /\ store = pre

\* A batch operation was called with an empty list on a store that holds a
\* row.
C35_Witness ==
    /\ op \in BatchOps
    /\ arg = <<>>
    /\ outcome = "error"
    /\ \E t \in Tables : pre[t] # <<>>

\* C36: an UpdateEntity or DeleteEntity that reached its step on a store
\* that is not locked, with a record whose key is the key of no row of its
\* table, returns normally and leaves every table, and the record, as they
\* were.
C36_NoRowIsNoError ==
    (/\ op \in {"UpdateEntity", "DeleteEntity"}
     /\ PlacesOf(log, "step") # {}
     /\ \A k \in DOMAIN log : log[k].rc # "SQLITE_BUSY"
     /\ \A k \in DOMAIN pre[arg.tableName] :
           pre[arg.tableName][k].c[KeyName(arg.tableName)].i # KeyOf(arg)) =>
        /\ outcome = "ok"
        /\ store = pre
        /\ ent = arg

\* UpdateEntity ran on a table that holds a row, with a record of another
\* key.
C36_Witness ==
    /\ op = "UpdateEntity"
    /\ pre[arg.tableName] # <<>>
    /\ \A k \in DOMAIN pre[arg.tableName] :
          pre[arg.tableName][k].c[KeyName(arg.tableName)].i # KeyOf(arg)
    /\ PlacesOf(log, "step") # {}
    /\ outcome = "ok"

============================================================================
